---- MODULE Spec2Model ----
(***************************************************************************)
(* A model of the core of redis-cluster-proxy (src/src/proxy.c and         *)
(* src/src/cluster.c): the slot hasher and the slot map, the request       *)
(* parser, the router, one worker's event loop with its shared and private *)
(* connection pools, and the send queue / pending queue / reply engine.    *)
(*                                                                         *)
(* Bytes are their ASCII codes, a buffer is a sequence of bytes.           *)
(***************************************************************************)
EXTENDS Integers, Sequences, FiniteSets, TLC

(***************************************************************************)
(* Bytes and small helpers                                                 *)
(***************************************************************************)

Min(a, b) == IF a < b THEN a ELSE b

Max(a, b) == IF a > b THEN a ELSE b

\* The part of sequence s from index i (1-based) to its end.
Tail0(s, i) == SubSeq(s, i, Len(s))

\* Sequence s without its elements equal to x (listSearchKey + listDelNode all).
RECURSIVE SeqRemoveAll(_, _)
SeqRemoveAll(s, x) ==
    IF s = <<>> THEN <<>>
    ELSE IF Head(s) = x THEN SeqRemoveAll(Tail(s), x)
         ELSE <<Head(s)>> \o SeqRemoveAll(Tail(s), x)

\* listSearchKey + listDelNode: the first occurrence of x only.
RECURSIVE SeqRemoveFirst(_, _)
SeqRemoveFirst(s, x) ==
    IF s = <<>> THEN <<>>
    ELSE IF Head(s) = x THEN Tail(s)
         ELSE <<Head(s)>> \o SeqRemoveFirst(Tail(s), x)

SeqToSet(s) == {s[i] : i \in 1..Len(s)}

\* Number of occurrences of x in s.
RECURSIVE SeqCount(_, _)
SeqCount(s, x) ==
    IF s = <<>> THEN 0
    ELSE (IF Head(s) = x THEN 1 ELSE 0) + SeqCount(Tail(s), x)

\* Bitwise exclusive or of two naturals.
RECURSIVE Xor(_, _)
Xor(a, b) ==
    IF a = 0 THEN b
    ELSE IF b = 0 THEN a
    ELSE (((a % 2) + (b % 2)) % 2) + 2 * Xor(a \div 2, b \div 2)

\* Decimal digits of a natural, as bytes.
RECURSIVE Digits(_)
Digits(n) == IF n < 10 THEN <<48 + n>> ELSE Digits(n \div 10) \o <<48 + (n % 10)>>

\* atoi / atoll on a byte string: optional sign, then the leading digits.
RECURSIVE AtoiDigits(_, _)
AtoiDigits(s, acc) ==
    IF s = <<>> \/ Head(s) < 48 \/ Head(s) > 57 THEN acc
    ELSE AtoiDigits(Tail(s), acc * 10 + (Head(s) - 48))

Atoi(s) ==
    IF s = <<>> THEN 0
    ELSE IF Head(s) = 45 THEN 0 - AtoiDigits(Tail(s), 0)
    ELSE IF Head(s) = 43 THEN AtoiDigits(Tail(s), 0)
    ELSE AtoiDigits(s, 0)

\* sdstolower on one byte.
ToLower(b) == IF b >= 65 /\ b <= 90 THEN b + 32 ELSE b

\* strchr(buffer + from0, ch): the 0-based offset of the first ch at or after
\* offset from0 of the NUL terminated buffer, or -1.
RECURSIVE Strchr(_, _, _)
Strchr(buf, from0, ch) ==
    IF from0 >= Len(buf) THEN -1
    ELSE IF buf[from0 + 1] = ch THEN from0
    ELSE Strchr(buf, from0 + 1, ch)

(***************************************************************************)
(* Slot hasher (cluster.c)                                                 *)
(***************************************************************************)

\* One bit step of CRC16/XMODEM (polynomial 0x1021).
RECURSIVE Crc16Bits(_, _)
Crc16Bits(crc, n) ==
    IF n = 0 THEN crc
    ELSE Crc16Bits(IF crc >= 32768
                   THEN Xor((crc * 2) % 65536, 4129)
                   ELSE (crc * 2) % 65536, n - 1)

RECURSIVE Crc16From(_, _)
Crc16From(crc, buf) ==
    IF buf = <<>> THEN crc
    ELSE Crc16From(Crc16Bits(Xor(crc, Head(buf) * 256), 8), Tail(buf))

crc16(buf) == Crc16From(0, buf)

\* 0-based index of the first byte ch of key at or after index from0, or Len(key).
RECURSIVE FirstIndexOf(_, _, _)
FirstIndexOf(key, from0, ch) ==
    IF from0 >= Len(key) THEN Len(key)
    ELSE IF key[from0 + 1] = ch THEN from0
    ELSE FirstIndexOf(key, from0 + 1, ch)

\* The hash of the key: crc16, or one of the hashes tried in its place.
RECURSIVE WeightedSum(_, _)
WeightedSum(buf, w) ==
    IF buf = <<>> THEN 0
    ELSE (Head(buf) * w + WeightedSum(Tail(buf), w + 2)) % 65536

Hash(h, buf) ==
    CASE h = "crc16" -> crc16(buf)
      [] h = "len" -> Len(buf)
      [] h = "sum" -> WeightedSum(buf, 1)
      [] h = "last" -> IF buf = <<>> THEN 7 ELSE buf[Len(buf)] * 130

\* The whole key is hashed, braces or not.
clusterKeyHashSlotWhole(h, key) == Hash(h, key) % 16384

\* clusterKeyHashSlot, with hash h where the code calls crc16.
clusterKeyHashSlotWith(h, key) ==
    LET keylen == Len(key)
        s == FirstIndexOf(key, 0, 123)
    IN IF s = keylen THEN Hash(h, key) % 16384
       ELSE LET e == FirstIndexOf(key, s + 1, 125)
            IN IF e = keylen \/ e = s + 1 THEN Hash(h, key) % 16384
               ELSE Hash(h, SubSeq(key, s + 2, e)) % 16384

clusterKeyHashSlot(key) == clusterKeyHashSlotWith("crc16", key)

(***************************************************************************)
(* Topology store (cluster.c)                                              *)
(***************************************************************************)

\* A clusterNode object.  owner = 0: a node of the shared cluster;
\* owner = c: a private clone made for client c, one per slot map entry
\* (key is that entry's slot).  NilNode stands for NULL.
NilNode == [name |-> "nil", owner |-> 0, key |-> <<>>]

SharedNode(name) == [name |-> name, owner |-> 0, key |-> <<>>]

\* htonl: the four bytes of a 32 bit integer (two's complement), most
\* significant first.
ByteOf(x, k) ==
    IF x >= 0 THEN (x \div k) % 256
    ELSE 255 - ((((0 - x) - 1) \div k) % 256)

\* The four bytes least significant first, as a little endian host stores
\* them.
hostl(x) == <<ByteOf(x, 1), ByteOf(x, 256), ByteOf(x, 65536), ByteOf(x, 16777216)>>

htonl(x) == <<ByteOf(x, 16777216), ByteOf(x, 65536), ByteOf(x, 256), ByteOf(x, 1)>>

\* Byte-wise (memcmp) order of two 4 byte keys: k1 <= k2.
KeyLeq(k1, k2) ==
    \/ k1 = k2
    \/ \E i \in 1..4 : /\ k1[i] < k2[i]
                       /\ \A j \in 1..(i - 1) : k1[j] = k2[j]

\* mapSlot: raxInsert of the big endian slot (an existing key is overwritten).
mapSlot(map, slot, node) ==
    [k \in (DOMAIN map) \cup {htonl(slot)} |->
        IF k = htonl(slot) THEN node ELSE map[k]]

EmptyRax == [k \in {} |-> NilNode]

\* One slot definition of a CLUSTER NODES line: <<start, stop>> is "N-M",
\* <<n>> is a single slot.  Only the end points become keys of the map.
ApplySlotsDef(map, def, node) ==
    IF Len(def) = 2 THEN mapSlot(mapSlot(map, def[1], node), def[2], node)
    ELSE mapSlot(map, def[1], node)

RECURSIVE ApplySlotsDefs(_, _, _)
ApplySlotsDefs(map, defs, node) ==
    IF defs = <<>> THEN map
    ELSE ApplySlotsDefs(ApplySlotsDef(map, Head(defs), node), Tail(defs), node)

\* fetchClusterConfiguration: the slots part of every line of the node table.
RECURSIVE fetchClusterConfiguration(_, _)
fetchClusterConfiguration(map, table) ==
    IF table = <<>> THEN map
    ELSE fetchClusterConfiguration(
             ApplySlotsDefs(map, Head(table).slots, SharedNode(Head(table).name)),
             Tail(table))

\* raxSeek(">=", key) then raxNext: the entry with the least key >= key.
RaxSeekGe(map, key) ==
    LET cand == {k \in DOMAIN map : KeyLeq(key, k)}
    IN IF cand = {} THEN NilNode
       ELSE map[CHOOSE k \in cand : \A k2 \in cand : KeyLeq(k, k2)]

searchNodeBySlot(map, slot) == RaxSeekGe(map, htonl(slot))

\* raxSeek("^") then raxNext: the entry with the least key.
getFirstMappedNode(map) ==
    IF DOMAIN map = {} THEN NilNode
    ELSE map[CHOOSE k \in DOMAIN map : \A k2 \in DOMAIN map : KeyLeq(k, k2)]

\* getNodeByKey that forgets to hand back the slot of the key.
getNodeByKeyNoSlot(map, key, oldslot) ==
    [node |-> searchNodeBySlot(map, clusterKeyHashSlot(key)), slot |-> oldslot]

\* getNodeByKey: the node and, when one is found, the slot (else slot is
\* left as the caller had it).
getNodeByKey(map, key, oldslot) ==
    LET slot == clusterKeyHashSlot(key)
        node == searchNodeBySlot(map, slot)
    IN [node |-> node, slot |-> IF node # NilNode THEN slot ELSE oldslot]

\* The command table (commands.c is not part of the sources at hand): name,
\* arity, first_key, last_key, key_step, unsupported.
redisCommandTable ==
    { [name |-> <<103, 101, 116>>, arity |-> 2, first_key |-> 1,
       last_key |-> 1, key_step |-> 1, unsupported |-> FALSE],
      [name |-> <<109, 103, 101, 116>>, arity |-> -2, first_key |-> 1,
       last_key |-> -1, key_step |-> 1, unsupported |-> FALSE],
      [name |-> <<112, 105, 110, 103>>, arity |-> 1, first_key |-> 0,
       last_key |-> 0, key_step |-> 0, unsupported |-> FALSE],
      [name |-> <<107, 101, 121, 115>>, arity |-> 2, first_key |-> 0,
       last_key |-> 0, key_step |-> 0, unsupported |-> FALSE] }

NoCommand ==
    [name |-> <<>>, arity |-> 0, first_key |-> 0, last_key |-> 0,
     key_step |-> 0, unsupported |-> TRUE]

\* dictFetchValue(proxy.commands, name): NoCommand stands for NULL.
CommandLookup(name) ==
    IF \E d \in redisCommandTable : d.name = name
    THEN CHOOSE d \in redisCommandTable : d.name = name
    ELSE NoCommand

(***************************************************************************)
(* Request object and parser (proxy.c)                                     *)
(***************************************************************************)

REQ_STATUS_UNKNOWN == -1

PARSE_STATUS_INCOMPLETE == -1

PARSE_STATUS_ERROR == 0

PARSE_STATUS_OK == 1

UNDEFINED_SLOT == -1

\* createRequest: the fields of a new request of client c.  0 stands for a
\* NULL request pointer, NoCommand for a NULL command.  freed is bookkeeping of the
\* allocator: the record of a freed request stays as the memory it leaves.
NewRequest(c, owned) ==
    [client |-> c, buffer |-> <<>>, query_offset |-> 0,
     is_multibulk |-> REQ_STATUS_UNKNOWN, argc |-> 0, num_commands |-> 0,
     pending_bulks |-> REQ_STATUS_UNKNOWN,
     current_bulk_length |-> REQ_STATUS_UNKNOWN,
     offsets |-> <<>>, lengths |-> <<>>, slot |-> UNDEFINED_SLOT,
     node |-> NilNode, command |-> NoCommand, written |-> 0,
     parsing_status |-> PARSE_STATUS_INCOMPLETE,
     has_write_handler |-> FALSE, has_read_handler |-> FALSE,
     owned_by_client |-> owned, prev_request |-> 0, next_request |-> 0,
     freed |-> FALSE]

\* *p for p = buffer + off: a byte of the buffer, the NUL that ends an sds
\* string, or (past it) a byte nobody wrote, which is junk.
ByteAt(buf, off, junk) ==
    IF off < Len(buf) THEN buf[off + 1]
    ELSE IF off = Len(buf) THEN 0
    ELSE junk

\* offsets[idx] = off; lengths[idx] = len, for the 0-based idx (= old argc).
SetArg(r, idx, off, len) ==
    [r EXCEPT !.offsets = SubSeq(r.offsets, 1, idx) \o <<off>>,
              !.lengths = SubSeq(r.lengths, 1, idx) \o <<len>>]

\* Binds a value to a name: With(e, LAMBDA x : f(x)) is f(e).
With(x, F(_)) == F(x)

\* A way out of the parsing loops.  ctl = "cleanup": goto cleanup with
\* status; "fall": the loop ended; "split": a second command starts at
\* query_offset and goes to a new request; "hang": an iteration changed
\* nothing, so the loop never ends.
Stop(r, st) == [r |-> r, ctl |-> "cleanup", status |-> st]

Leave(r, how) == [r |-> r, ctl |-> how, status |-> PARSE_STATUS_INCOMPLETE]

RECURSIVE ParseBulks(_, _, _, _, _)
RECURSIVE ParseMultiBulk(_, _, _)

\* The second half of an iteration of the for loop: the data of the bulk,
\* its length arglen being known (proxy.c 1156-1187).
BulkData(r, buflen, i, lc, junk, arglen) ==
    IF arglen <= 0 THEN ParseBulks(r, buflen, i + 1, lc, junk)
    ELSE IF Strchr(r.buffer, r.query_offset, 13) = -1
    THEN Stop(r, PARSE_STATUS_INCOMPLETE)
    ELSE IF \/ r.query_offset + arglen >= buflen
            \/ r.buffer[r.query_offset + arglen + 1] # 13
    THEN Stop(r, PARSE_STATUS_INCOMPLETE)
    ELSE ParseBulks(
             [SetArg(r, r.argc, r.query_offset, arglen)
                 EXCEPT !.argc = r.argc + 1,
                        !.pending_bulks = r.pending_bulks - 1,
                        !.current_bulk_length = REQ_STATUS_UNKNOWN,
                        !.query_offset = r.query_offset + arglen + 2],
             buflen, i + 1, lc, junk)

\* The first half, for a bulk whose "$<len>" line ends at offset nl.
BulkLength(r, buflen, i, lc, junk, nl) ==
    With(Max(Atoi(SubSeq(r.buffer, r.query_offset + 2, nl)), 0),
         LAMBDA arglen :
           IF nl + 2 >= buflen
           THEN Stop([r EXCEPT !.current_bulk_length = arglen,
                               !.query_offset = nl + 2],
                     PARSE_STATUS_INCOMPLETE)
           ELSE BulkData([r EXCEPT !.current_bulk_length = arglen,
                                   !.query_offset = nl + 2],
                         buflen, i, lc, junk, arglen))

\* The for loop over the bulks of a multi-bulk command (proxy.c 1127-1188),
\* from iteration i.
ParseBulks(r, buflen, i, lc, junk) ==
    IF i >= lc THEN Leave(r, "fall")
    ELSE IF r.current_bulk_length # REQ_STATUS_UNKNOWN
    THEN BulkData(r, buflen, i, lc, junk, r.current_bulk_length)
    ELSE IF ByteAt(r.buffer, r.query_offset, junk) # 36
    THEN Stop(r, PARSE_STATUS_ERROR)
    ELSE IF r.query_offset + 1 >= buflen
    THEN Stop(r, PARSE_STATUS_INCOMPLETE)
    ELSE With(Strchr(r.buffer, r.query_offset + 1, 13),
              LAMBDA nl :
                IF nl = -1 THEN Stop(r, PARSE_STATUS_INCOMPLETE)
                ELSE BulkLength(r, buflen, i, lc, junk, nl))

\* The bulks of the command at hand, then the next iteration of the while
\* loop; r0 is the request as the iteration found it.
BulksThenLoop(r0, r, buflen, lc, junk) ==
    With(ParseBulks(r, buflen, 0, lc, junk),
         LAMBDA b :
           IF b.ctl = "cleanup" THEN b
           ELSE IF b.r = r0 THEN Leave(r0, "hang")
           ELSE ParseMultiBulk(b.r, buflen, junk))

\* An iteration of the while loop after its test for '*' (proxy.c
\* 1104-1188); r0 is the request as the iteration found it.
CommandBody(r0, r, buflen, junk) ==
    IF r.query_offset >= buflen THEN Stop(r, PARSE_STATUS_INCOMPLETE)
    ELSE IF r.pending_bulks # REQ_STATUS_UNKNOWN
    THEN BulksThenLoop(r0, r, buflen, r.pending_bulks, junk)
    ELSE With(Strchr(r.buffer, r.query_offset, 13),
              LAMBDA nl :
                IF nl = -1 THEN Stop(r, PARSE_STATUS_INCOMPLETE)
                ELSE With(Max(Atoi(SubSeq(r.buffer, r.query_offset + 1, nl)), 0),
                          LAMBDA lc :
                            IF nl + 2 >= buflen
                            THEN Stop([r EXCEPT !.query_offset = nl + 2,
                                                !.pending_bulks = lc],
                                      PARSE_STATUS_INCOMPLETE)
                            ELSE BulksThenLoop(
                                     r0,
                                     [r EXCEPT !.query_offset = nl + 2,
                                               !.pending_bulks = lc],
                                     buflen, lc, junk)))

\* The while loop of a multi-bulk request (proxy.c 1072-1189).
ParseMultiBulk(r, buflen, junk) ==
    IF r.query_offset >= buflen THEN Leave(r, "fall")
    ELSE IF r.buffer[r.query_offset + 1] # 42
    THEN CommandBody(r, r, buflen, junk)
    ELSE IF r.num_commands > 0 THEN Leave(r, "split")
    ELSE CommandBody(r,
                     [r EXCEPT !.num_commands = r.num_commands + 1,
                               !.query_offset = r.query_offset + 1,
                               !.pending_bulks = REQ_STATUS_UNKNOWN,
                               !.current_bulk_length = REQ_STATUS_UNKNOWN],
                     buflen, junk)

\* The while loop over the words of an inline request (proxy.c 1203-1215),
\* p and nl being offsets into the buffer.
RECURSIVE ParseInlineArgs(_, _, _)
ParseInlineArgs(r, p, nl) ==
    IF nl - p <= 0 THEN r
    ELSE With(IF Strchr(r.buffer, p, 32) = -1 THEN nl
              ELSE Strchr(r.buffer, p, 32),
              LAMBDA sep :
                ParseInlineArgs([SetArg(r, r.argc, p, sep - p)
                                    EXCEPT !.argc = r.argc + 1],
                                sep + 1, nl))

\* An inline request (proxy.c 1190-1217).
ParseInline(r) ==
    With(Strchr(r.buffer, r.query_offset, 10),
         LAMBDA nl :
           IF nl = -1 THEN Stop(r, PARSE_STATUS_INCOMPLETE)
           ELSE Stop(ParseInlineArgs(
                         r, r.query_offset,
                         IF nl # r.query_offset /\ r.buffer[nl] = 13
                         THEN nl - 1 ELSE nl),
                     PARSE_STATUS_OK))

\* The label cleanup of parseRequest (proxy.c 1218-1227) for the request r
\* and the status the body left: the request and the status returned.
Cleanup(r, st) ==
    With(IF r.query_offset > Len(r.buffer)
         THEN [r EXCEPT !.query_offset = Len(r.buffer)] ELSE r,
         LAMBDA r2 :
           With(IF /\ st = PARSE_STATUS_INCOMPLETE
                   /\ r2.is_multibulk # 0 /\ r2.pending_bulks <= 0
                   /\ Len(r2.buffer) - r2.query_offset = 0
                THEN PARSE_STATUS_OK ELSE st,
                LAMBDA status :
                  [r |-> [r2 EXCEPT !.parsing_status = status],
                   status |-> status]))

\* The split that leaves the buffer of the current request as it is.
ParseResultWhole(b) ==
    IF b.ctl = "hang"
    THEN [r |-> b.r, status |-> PARSE_STATUS_INCOMPLETE, split |-> FALSE,
          newbuf |-> <<>>, hang |-> TRUE]
    ELSE With(Cleanup(IF b.ctl = "split"
                      THEN [b.r EXCEPT !.num_commands = 1,
                                       !.pending_bulks = 0]
                      ELSE b.r,
                      b.status),
              LAMBDA x :
                [r |-> x.r, status |-> x.status, split |-> b.ctl = "split",
                 newbuf |-> IF b.ctl = "split"
                            THEN Tail0(b.r.buffer, b.r.query_offset + 1)
                            ELSE <<>>,
                 hang |-> FALSE])

\* What parseRequest returns for the way b its body ended.  On a split the
\* current request is truncated (proxy.c 1081-1085) and the rest (newbuf)
\* goes to a new request.
ParseResult(b) ==
    IF b.ctl = "hang"
    THEN [r |-> b.r, status |-> PARSE_STATUS_INCOMPLETE, split |-> FALSE,
          newbuf |-> <<>>, hang |-> TRUE]
    ELSE IF b.ctl = "split"
    THEN With(Cleanup([b.r EXCEPT
                          !.buffer = SubSeq(b.r.buffer, 1, b.r.query_offset),
                          !.num_commands = 1, !.pending_bulks = 0],
                      b.status),
              LAMBDA x :
                [r |-> x.r, status |-> x.status, split |-> TRUE,
                 newbuf |-> Tail0(b.r.buffer, b.r.query_offset + 1),
                 hang |-> FALSE])
    ELSE With(Cleanup(b.r, b.status),
              LAMBDA x :
                [r |-> x.r, status |-> x.status, split |-> FALSE,
                 newbuf |-> <<>>, hang |-> FALSE])

\* The body of parseRequest for a request whose kind is known.
ParseBody(r, junk) ==
    IF r.is_multibulk # 0 THEN ParseMultiBulk(r, Len(r.buffer), junk)
    ELSE ParseInline(r)

\* parseRequest on the request record r: the request after the call, the
\* returned status, and, when a second command was split off, the bytes
\* (newbuf) that go to the new request.  hang: the call does not return.
parseRequest(r, junk) ==
    IF r.parsing_status # PARSE_STATUS_INCOMPLETE
    THEN [r |-> r, status |-> r.parsing_status, split |-> FALSE,
          newbuf |-> <<>>, hang |-> FALSE]
    ELSE ParseResult(
             ParseBody(
                 IF r.is_multibulk = REQ_STATUS_UNKNOWN
                 THEN [r EXCEPT !.is_multibulk =
                           IF ByteAt(r.buffer, r.query_offset, junk) = 42
                           THEN 1 ELSE 0]
                 ELSE r,
                 junk))

(***************************************************************************)
(* Bounds of the model and the cluster it is run against                   *)
(***************************************************************************)

\* Clients that may connect.
NumClients == 2

\* Request objects one run may allocate.
MaxReq == 8

\* Back-end file descriptors.
MaxFd == 2

\* Bytes a congested back-end socket accepts in one handler run.
PartialLen == 5

\* Bytes of one reply frame of a node.
ReplyLen == 2

\* Times the environment may break a back-end connection or refuse one.
MaxFaults == 2

\* The longest record kept of what was appended to one client's output.
MaxHist == 16

Clients == 1..NumClients

Fds == 1..MaxFd

ReqIds == 1..MaxReq

\* The CLUSTER NODES table: node A serves slots 0-5460, node B 5461-10922,
\* slots 10923-16383 are served by nobody.
NodeTable ==
    << [name |-> "A", slots |-> << <<0, 5460>> >>],
       [name |-> "B", slots |-> << <<5461, 10922>> >>] >>

NodeNames == {NodeTable[i].name : i \in 1..Len(NodeTable)}

\* proxy.cluster->slots_map after startup.
SharedSlotsMap == fetchClusterConfiguration(EmptyRax, NodeTable)

\* duplicateClusterNode for the entry with key k of the shared map, made for
\* client c.
CloneOf(c, k) == [name |-> SharedSlotsMap[k].name, owner |-> c, key |-> k]

AllNodes ==
    {SharedNode(n) : n \in NodeNames}
    \cup {CloneOf(c, k) : c \in Clients, k \in DOMAIN SharedSlotsMap}

(***************************************************************************)
(* The state the handlers work on.  A handler is an operator from a state   *)
(* record to a state record; ret is the value the last call returned.      *)
(***************************************************************************)

\* A connection pool (redisClusterConnection).
EmptyConn ==
    [requests_to_send |-> <<>>, requests_pending |-> <<>>,
     slots_map |-> EmptyRax]

\* getClientClusterConnection: 0 names the worker's shared pool, c the
\* private pool of client c.
getClientClusterConnection(s, c) ==
    IF s.clients[c].cluster_connection THEN c ELSE 0

Pool(s, pid) == IF pid = 0 THEN s.shared ELSE s.priv[pid]

SetToSend(s, pid, l) ==
    IF pid = 0 THEN [s EXCEPT !.shared.requests_to_send = l]
    ELSE [s EXCEPT !.priv[pid].requests_to_send = l]

SetPending(s, pid, l) ==
    IF pid = 0 THEN [s EXCEPT !.shared.requests_pending = l]
    ELSE [s EXCEPT !.priv[pid].requests_pending = l]

\* listAddNodeTail, listAddNodeHead and listSearchKey + listDelNode on the
\* lists of pool pid.
AddToSend(s, pid, r) ==
    SetToSend(s, pid, Append(Pool(s, pid).requests_to_send, r))

PushToSend(s, pid, r) ==
    SetToSend(s, pid, <<r>> \o Pool(s, pid).requests_to_send)

DelToSend(s, pid, r) ==
    SetToSend(s, pid, SeqRemoveFirst(Pool(s, pid).requests_to_send, r))

AddPending(s, pid, r) ==
    SetPending(s, pid, Append(Pool(s, pid).requests_pending, r))

DelPending(s, pid, r) ==
    SetPending(s, pid, SeqRemoveFirst(Pool(s, pid).requests_pending, r))

\* The pool a handler takes for request r: the client's own if the request
\* is owned_by_client, else the worker's.
PoolOfRequest(s, r) ==
    IF s.reqs[r].owned_by_client
    THEN getClientClusterConnection(s, s.reqs[r].client) ELSE 0

\* getClientSlotsMap
getClientSlotsMap(s, c) ==
    IF s.clients[c].cluster_connection THEN s.priv[c].slots_map
    ELSE SharedSlotsMap

\* The last of a set of keys of a map, in key order.
LastKey(ks) == CHOOSE k \in ks : \A k2 \in ks : KeyLeq(k2, k)

\* searchNodeByName on the nodes map of client c's private pool: the map is
\* filled in slot order by createClientClusterConnection, a later raxInsert
\* of the same name replacing the earlier one.
searchNodeByName(s, c, name) ==
    IF \A k \in DOMAIN s.priv[c].slots_map : s.priv[c].slots_map[k].name # name
    THEN NilNode
    ELSE s.priv[c].slots_map[
             LastKey({k \in DOMAIN s.priv[c].slots_map :
                         s.priv[c].slots_map[k].name = name})]

\* getClusterNodeConnection: the fd of the node's redisContext, 0 for NULL.
getClusterNodeConnection(s, node) ==
    IF node = NilNode THEN 0 ELSE s.context[node]

\* A token of a reply: part j (1..ReplyLen) of the frame a node sent in
\* answer to request req, or (part 0) an error line the proxy made itself.
ReplyFrame(r) == [j \in 1..ReplyLen |-> [req |-> r, part |-> j, err |-> ""]]

\* Some freed memory is read if cond holds.
UafIf(s, cond) == [s EXCEPT !.uaf = @ \/ cond]

\* addReplyRaw / addReplyError (protocol.c): append to the client's output
\* buffer.  hist keeps all that was ever appended.
addReplyRaw(s, c, toks) ==
    [s EXCEPT !.clients[c].obuf = @ \o toks,
              !.hist[c] = @ \o toks,
              !.uaf = @ \/ s.clients[c].freed,
              !.over = @ \/ Len(s.hist[c]) + Len(toks) > MaxHist]

addReplyError(s, c, r, msg) ==
    addReplyRaw(s, c, << [req |-> r, part |-> 0, err |-> msg] >>)

\* aeCreateFileEvent on a back-end fd: one clientData per fd, whatever the
\* mask.  aeDeleteFileEvent leaves the clientData.
aeCreateFileEvent(s, fd, mask, r) ==
    [s EXCEPT !.events[fd] =
        [rd |-> @.rd \/ mask = "r", wr |-> @.wr \/ mask = "w", data |-> r]]

aeDeleteFileEvent(s, fd, mask) ==
    [s EXCEPT !.events[fd] =
        [rd |-> @.rd /\ mask # "r", wr |-> @.wr /\ mask # "w", data |-> @.data]]

\* getRegisteredFileEventForRequestNode: the fd whose event is registered,
\* 0 for NULL.
getRegisteredFileEventForRequestNode(s, r) ==
    IF getClusterNodeConnection(s, s.reqs[r].node) = 0 THEN 0
    ELSE IF /\ ~s.events[getClusterNodeConnection(s, s.reqs[r].node)].rd
            /\ ~s.events[getClusterNodeConnection(s, s.reqs[r].node)].wr
    THEN 0
    ELSE getClusterNodeConnection(s, s.reqs[r].node)

\* isClusterFileEventBusy(fe, req) for the event of fd.
isClusterFileEventBusy(s, fd, r) ==
    s.reqs[s.events[fd].data].client # s.reqs[r].client

\* Whether evaluating isClusterFileEventBusy reads a freed request.
BusyReadsFreed(s, fd) == s.reqs[s.events[fd].data].freed

\* The test "ev == NULL || !isClusterFileEventBusy(ev, req)" and whether it
\* reads a freed request.
FreeToUse(s, r) ==
    \/ getRegisteredFileEventForRequestNode(s, r) = 0
    \/ ~isClusterFileEventBusy(s, getRegisteredFileEventForRequestNode(s, r), r)

TestReadsFreed(s, r) ==
    /\ getRegisteredFileEventForRequestNode(s, r) # 0
    /\ BusyReadsFreed(s, getRegisteredFileEventForRequestNode(s, r))

\* The two unlinkings of freeRequest (proxy.c 1300-1305).
UnlinkNext(s, r) ==
    IF /\ s.reqs[r].next_request # 0
       /\ s.reqs[s.reqs[r].next_request].prev_request = r
    THEN [s EXCEPT !.reqs[s.reqs[r].next_request].prev_request = 0]
    ELSE s

UnlinkPrev(s, r) ==
    IF /\ s.reqs[r].prev_request # 0
       /\ s.reqs[s.reqs[r].prev_request].next_request = r
    THEN [s EXCEPT !.reqs[s.reqs[r].prev_request].next_request =
                       s.reqs[r].next_request]
    ELSE s

\* The deletions of freeRequest under delete_from_lists (proxy.c 1311-1318).
RemoveFromLists(s, r) ==
    [DelPending(DelToSend(s, PoolOfRequest(s, r), r), PoolOfRequest(s, r), r)
       EXCEPT !.clients[s.reqs[r].client].requests_to_process =
                  SeqRemoveFirst(@, r)]

\* freeRequest(req, delete_from_lists).  The connection it fetches is never
\* stored (ctx stays NULL), so no file event is deleted.
freeRequest(s, r, del) ==
    With([s EXCEPT !.uaf = @ \/ s.reqs[r].freed
                             \/ s.clients[s.reqs[r].client].freed,
                   !.clients[s.reqs[r].client].current_request =
                       IF @ = r THEN 0 ELSE @],
         LAMBDA s1 :
           With(UnlinkPrev(UnlinkNext(s1, r), r),
                LAMBDA s2 :
                  [(IF del THEN RemoveFromLists(s2, r) ELSE s2)
                     EXCEPT !.reqs[r].freed = TRUE]))

\* freeRequest(req, 0) on every request of list l, in order.
RECURSIVE FreeAll(_, _)
FreeAll(s, l) ==
    IF l = <<>> THEN s ELSE FreeAll(freeRequest(s, Head(l), FALSE), Tail(l))

\* createRequest(c): a new request object, made the client's current one.
createRequest(s, c) ==
    [s EXCEPT !.nreq = s.nreq + 1,
              !.reqs[s.nreq + 1] =
                  NewRequest(c, s.clients[c].cluster_connection),
              !.clients[c].current_request = s.nreq + 1]

(***************************************************************************)
(* Sockets and connections                                                 *)
(***************************************************************************)

CLIENT_STATUS_NONE == 0

CLIENT_STATUS_LINKED == 1

CLIENT_STATUS_UNLINKED == 2

\* A socket towards a node: inq holds what the proxy wrote (runs of bytes
\* [from, to) of a request's buffer), outq the reply bytes on their way back,
\* eof that the node closed its end.
ClosedSock == [open |-> FALSE, eof |-> FALSE, inq |-> <<>>, outq |-> <<>>]

FreshSock == [open |-> TRUE, eof |-> FALSE, inq |-> <<>>, outq |-> <<>>]

\* The lowest descriptor not in use (what socket() returns), 0 when the
\* model has none left.
LowestFreeFd(s) ==
    IF \A fd \in Fds : s.net[fd].open THEN 0
    ELSE CHOOSE fd \in Fds : /\ ~s.net[fd].open
                             /\ \A f2 \in Fds : f2 < fd => s.net[f2].open

\* redisFree of a context: close(fd).
redisFree(s, fd) ==
    [s EXCEPT !.net[fd] = ClosedSock, !.reader[fd] = <<>>]

\* redisConnect for a node that may refuse (it is in s.down); fd is the
\* descriptor the new socket gets.
redisConnect(s, node, fd) ==
    IF node.name \in s.down THEN [s EXCEPT !.context[node] = 0]
    ELSE IF fd = 0 THEN [s EXCEPT !.context[node] = 0, !.over = TRUE]
    ELSE [s EXCEPT !.context[node] = fd, !.net[fd] = FreshSock,
                   !.reader[fd] = <<>>]

\* clusterNodeConnect: drop the old context, connect anew.
clusterNodeConnect(s, node) ==
    With(IF s.context[node] # 0 THEN redisFree(s, s.context[node]) ELSE s,
         LAMBDA s1 : redisConnect(s1, node, LowestFreeFd(s1)))

\* A run of bytes joins the run before it when it continues it.
AppendRun(q, run) ==
    IF /\ q # <<>>
       /\ q[Len(q)].fd = run.fd /\ q[Len(q)].req = run.req
       /\ q[Len(q)].to = run.from
    THEN [q EXCEPT ![Len(q)].to = run.to]
    ELSE Append(q, run)

\* The bytes [written, written + n) of request r, written to fd.
Run(s, fd, r, n) ==
    [fd |-> fd, req |-> r, from |-> s.reqs[r].written,
     to |-> s.reqs[r].written + n]

\* write(fd, buffer + written, buflen - written), repeated until it fails:
\* the socket takes what it has room for (s.space), then says EAGAIN; a
\* socket the node closed, or a closed descriptor, makes it fail (werr).
WriteFd(s, fd, r) ==
    With(Min(Len(s.reqs[r].buffer) - s.reqs[r].written, s.space[fd]),
         LAMBDA n :
           IF Len(s.reqs[r].buffer) = s.reqs[r].written
           THEN [s EXCEPT !.werr = FALSE]
           ELSE IF ~s.net[fd].open \/ s.net[fd].eof
           THEN [s EXCEPT !.werr = TRUE]
           ELSE IF n = 0 THEN [s EXCEPT !.werr = FALSE]
           ELSE [s EXCEPT !.werr = FALSE,
                          !.reqs[r].written = @ + n,
                          !.space[fd] = @ - n,
                          !.net[fd].inq = AppendRun(@, Run(s, fd, r, n)),
                          !.wlog = AppendRun(@, Run(s, fd, r, n))])

\* unlinkClient
unlinkClient(s, c) ==
    [s EXCEPT !.clients[c].rd = FALSE, !.clients[c].wr = FALSE,
              !.clients[c].sock = FALSE,
              !.clients[c].status = CLIENT_STATUS_UNLINKED]

\* The descriptors of the contexts of the clones made for client c.
CloneFds(s, c) == {s.context[n] : n \in {m \in AllNodes : m.owner = c}} \ {0}

\* The end of freeClusterConnection: the clones are freed with their
\* contexts, and the pool itself.
FreeClones(s, c) ==
    [s EXCEPT !.priv[c] = EmptyConn,
              !.context = [n \in AllNodes |->
                              IF n.owner = c THEN 0 ELSE s.context[n]],
              !.net = [fd \in Fds |->
                          IF fd \in CloneFds(s, c) THEN ClosedSock
                          ELSE s.net[fd]],
              !.reader = [fd \in Fds |->
                          IF fd \in CloneFds(s, c) THEN <<>>
                          ELSE s.reader[fd]]]

\* freeClusterConnection of the private pool of client c.
freeClusterConnection(s, c) ==
    With(FreeAll(s, s.priv[c].requests_pending),
         LAMBDA s1 :
           FreeClones(FreeAll(s1, s1.priv[c].requests_to_send), c))

\* The requests of client c on list l.
OfClient(s, l, c) == SelectSeq(l, LAMBDA r : s.reqs[r].client = c)

NotOfClient(s, l, c) == SelectSeq(l, LAMBDA r : s.reqs[r].client # c)

\* The two loops of freeClient over the lists of the shared pool.
FreeSharedToSend(s, c) ==
    FreeAll([s EXCEPT !.shared.requests_to_send = NotOfClient(s, @, c)],
            OfClient(s, s.shared.requests_to_send, c))

FreeSharedPending(s, c) ==
    FreeAll([s EXCEPT !.shared.requests_pending = NotOfClient(s, @, c)],
            OfClient(s, s.shared.requests_pending, c))

\* freeClient up to the requests it is parsing (proxy.c 859-875).
FreeClientRequests(s, c) ==
    With(IF s.clients[c].status # CLIENT_STATUS_UNLINKED
         THEN unlinkClient(UafIf(s, s.clients[c].freed), c)
         ELSE UafIf(s, s.clients[c].freed),
         LAMBDA s1 :
           With(IF s1.clients[c].current_request # 0
                THEN freeRequest(
                         [s1 EXCEPT !.thread_clients = SeqRemoveFirst(@, c)],
                         s1.clients[c].current_request, TRUE)
                ELSE [s1 EXCEPT !.thread_clients = SeqRemoveFirst(@, c)],
                LAMBDA s2 :
                  [FreeAll(s2, s2.clients[c].requests_to_process)
                     EXCEPT !.clients[c].requests_to_process = <<>>]))

\* freeClient.  The block "also check for requests still owned by thread
\* shared pool" sits in the branch of a client without a private pool, under
\* a test (conn == c->cluster_connection) that is false there.
freeClient(s, c) ==
    With(FreeClientRequests(s, c),
         LAMBDA s1 :
           [(IF s1.clients[c].cluster_connection
             THEN freeClusterConnection(s1, c)
             ELSE FreeSharedPending(FreeSharedToSend(s1, c), c))
              EXCEPT !.clients[c].freed = TRUE,
                     !.clients[c].obuf = <<>>])

(***************************************************************************)
(* Sending to the cluster                                                  *)
(***************************************************************************)

\* A function's return value travels in s.ret; an assert that fails, a NULL
\* that is dereferenced and a loop that never ends stop the program (s.halt).
Ret(s, v) == [s EXCEPT !.ret = v]

Halt(s, how) == [s EXCEPT !.halt = IF @ = "" THEN how ELSE @]

\* The state without what a call hands back.
Core(s) == [s EXCEPT !.ret = 0, !.uaf = FALSE, !.werr = FALSE]

\* The read event is created and has_read_handler is left unset.
prepareRequestForReadingReplyUnset(s, r) ==
    IF s.reqs[r].has_read_handler THEN Ret(UafIf(s, s.reqs[r].freed), 1)
    ELSE IF s.reqs[r].node = NilNode
    THEN Halt(UafIf(s, s.reqs[r].freed), "abort")
    ELSE IF getClusterNodeConnection(s, s.reqs[r].node) = 0
    THEN Ret(UafIf(s, s.reqs[r].freed), 0)
    ELSE Ret(aeCreateFileEvent(
                 UafIf(s, s.reqs[r].freed),
                 getClusterNodeConnection(s, s.reqs[r].node), "r", r), 1)

\* prepareRequestForReadingReply
prepareRequestForReadingReply(s, r) ==
    IF s.reqs[r].has_read_handler THEN Ret(UafIf(s, s.reqs[r].freed), 1)
    ELSE IF s.reqs[r].node = NilNode
    THEN Halt(UafIf(s, s.reqs[r].freed), "abort")
    ELSE IF getClusterNodeConnection(s, s.reqs[r].node) = 0
    THEN Ret(UafIf(s, s.reqs[r].freed), 0)
    ELSE Ret([aeCreateFileEvent(
                  UafIf(s, s.reqs[r].freed),
                  getClusterNodeConnection(s, s.reqs[r].node), "r", r)
                EXCEPT !.reqs[r].has_read_handler = TRUE], 1)

\* The pool handleNextPendingRequest and handleNextRequestToCluster take for
\* the client c they are given (0 for NULL).
PoolOfOwner(s, c) == IF c = 0 THEN 0 ELSE getClientClusterConnection(s, c)

\* handleNextPendingRequest(el, c, getreq)
handleNextPendingRequest(s, c) ==
    IF Pool(s, PoolOfOwner(s, c)).requests_pending = <<>> THEN Ret(s, 1)
    ELSE prepareRequestForReadingReply(
             s, Head(Pool(s, PoolOfOwner(s, c)).requests_pending))

\* while (!handleNextPendingRequest(el, c, NULL)) {}: a call that fails
\* leaves everything as it was, so the loop never ends.
LoopNextPending(s, c) ==
    With(handleNextPendingRequest(s, c),
         LAMBDA t : IF t.halt = "" /\ t.ret = 0 THEN Halt(t, "hang") ELSE t)

RECURSIVE sendRequestToCluster(_, _)
RECURSIVE LoopNextRequest(_, _)

\* The test before the read handler is installed in writeToCluster.
TryPrepare(s, r) ==
    IF FreeToUse(s, r)
    THEN prepareRequestForReadingReply(UafIf(s, TestReadsFreed(s, r)), r)
    ELSE Ret(UafIf(s, TestReadsFreed(s, r)), 1)

\* The end of writeToCluster (proxy.c 1007-1014); success is what the
\* function has in its variable success there.
AfterSending(s, r, pid, owner, success) ==
    IF s.halt # "" THEN s
    ELSE IF Pool(s, pid).requests_to_send # <<>> THEN Ret(s, success)
    ELSE With(handleNextPendingRequest(s, owner),
              LAMBDA t :
                IF t.halt # "" THEN t
                ELSE Ret(t, IF /\ t.ret = 0
                               /\ Head(Pool(s, PoolOfOwner(s, owner))
                                          .requests_pending) = r
                            THEN 0 ELSE success))

\* writeToCluster once the whole buffer is written (proxy.c 984-1015).
Written(s, fd, r, pid, owner) ==
    With(TryPrepare(
             DelToSend(
                 AddPending(
                     [aeDeleteFileEvent(s, fd, "w")
                        EXCEPT !.reqs[r].has_write_handler = FALSE],
                     pid, r),
                 pid, r),
             r),
         LAMBDA e :
           IF e.halt # "" THEN e
           ELSE AfterSending(LoopNextRequest(e, owner), r, pid, owner, e.ret))

\* writeToCluster(el, fd, req)
writeToCluster(s, fd, r) ==
    With(WriteFd(UafIf(s, s.reqs[r].freed), fd, r),
         LAMBDA w :
           IF w.werr
           THEN Ret(freeRequest(
                        addReplyError(w, w.reqs[r].client, r,
                                      "Error writing to cluster"),
                        r, TRUE), 0)
           ELSE IF w.reqs[r].written # Len(w.reqs[r].buffer) THEN Ret(w, 1)
           ELSE Written(w, fd, r, PoolOfRequest(w, r),
                        IF w.reqs[r].owned_by_client
                        THEN w.reqs[r].client ELSE 0))

\* The test of sendRequestToCluster that keeps a request waiting.
MustWait(s, r) ==
    /\ \/ Pool(s, getClientClusterConnection(s, s.reqs[r].client))
              .requests_pending # <<>>
       \/ s.reqs[r].prev_request # 0
    /\ getRegisteredFileEventForRequestNode(s, r) # 0
    /\ \/ isClusterFileEventBusy(
              s, getRegisteredFileEventForRequestNode(s, r), r)
       \/ /\ s.reqs[r].prev_request # 0
          /\ s.reqs[s.reqs[r].prev_request].slot # s.reqs[r].slot

WaitReadsFreed(s, r) ==
    /\ \/ Pool(s, getClientClusterConnection(s, s.reqs[r].client))
              .requests_pending # <<>>
       \/ s.reqs[r].prev_request # 0
    /\ TestReadsFreed(s, r)

\* sendRequestToCluster from the call of writeToCluster on.
SendNow(s, fd, r) ==
    With(writeToCluster(s, fd, r),
         LAMBDA w :
           IF w.halt # "" \/ w.ret = 0 THEN w
           ELSE IF w.reqs[r].written # Len(w.reqs[r].buffer)
           THEN Ret([aeCreateFileEvent(w, fd, "w", r)
                       EXCEPT !.reqs[r].has_write_handler = TRUE], 1)
           ELSE Ret(w, 1))

\* sendRequestToCluster once the node is connected.
SendConnected(s, r) ==
    IF s.reqs[r].has_write_handler THEN Ret(s, 1)
    ELSE IF MustWait(s, r) THEN Ret(UafIf(s, WaitReadsFreed(s, r)), 1)
    ELSE SendNow(UafIf(s, WaitReadsFreed(s, r)),
                 getClusterNodeConnection(s, s.reqs[r].node), r)

\* The request stays where it is when its node cannot be connected.
sendRequestToClusterKeep(s, r) ==
    IF \/ s.reqs[r].node = NilNode
       \/ /\ s.clients[s.reqs[r].client].cluster_connection
          /\ s.reqs[r].node.owner = 0
    THEN Halt(s, "abort")
    ELSE With(IF getClusterNodeConnection(s, s.reqs[r].node) = 0
              THEN clusterNodeConnect(s, s.reqs[r].node) ELSE s,
              LAMBDA s1 :
                IF s1.over THEN s1
                ELSE IF getClusterNodeConnection(s1, s1.reqs[r].node) = 0
                THEN Ret(s1, 0)
                ELSE SendConnected(s1, r))

\* sendRequestToCluster(el, req, errmsg)
sendRequestToCluster(s, r) ==
    IF \/ s.reqs[r].node = NilNode
       \/ /\ s.clients[s.reqs[r].client].cluster_connection
          /\ s.reqs[r].node.owner = 0
    THEN Halt(s, "abort")
    ELSE With(IF getClusterNodeConnection(s, s.reqs[r].node) = 0
              THEN clusterNodeConnect(s, s.reqs[r].node) ELSE s,
              LAMBDA s1 :
                IF s1.over THEN s1
                ELSE IF getClusterNodeConnection(s1, s1.reqs[r].node) = 0
                THEN Ret(freeRequest(
                             addReplyError(s1, s1.reqs[r].client, r,
                                           "Could not connect to node"),
                             r, TRUE), 0)
                ELSE SendConnected(s1, r))

\* handleNextRequestToCluster(el, c, getreq, errmsg)
handleNextRequestToCluster(s, c) ==
    IF Pool(s, PoolOfOwner(s, c)).requests_to_send = <<>> THEN Ret(s, 1)
    ELSE sendRequestToCluster(
             s, Head(Pool(s, PoolOfOwner(s, c)).requests_to_send))

\* while (!handleNextRequestToCluster(el, c, NULL, NULL)) {}: it never ends
\* when a failing call leaves everything as it was.
LoopNextRequest(s, c) ==
    With(handleNextRequestToCluster(s, c),
         LAMBDA t :
           IF t.halt # "" \/ t.over \/ t.ret # 0 THEN t
           ELSE IF Core(t) = Core(s) THEN Halt(t, "hang")
           ELSE LoopNextRequest(t, c))

(***************************************************************************)
(* Routing and the client read handler                                     *)
(***************************************************************************)

\* The bytes of argument i (from 0) of a parsed request.
ArgBytes(req, i) ==
    SubSeq(req.buffer, req.offsets[i + 1] + 1,
           req.offsets[i + 1] + req.lengths[i + 1])

\* getRequestCommand: the lower-cased command name.  The asserts on the
\* offsets are AssertsOfCommand.
getRequestCommand(req) ==
    [k \in 1..req.lengths[1] |-> ToLower(ArgBytes(req, 0)[k])]

AssertsOfCommand(req) ==
    /\ req.offsets[1] < Len(req.buffer)
    /\ req.offsets[1] + req.lengths[1] < Len(req.buffer)

\* The for loop of getRequestNode over the key positions i, i + step, ...
\* acc holds node, slot and err as the loop has them.
RECURSIVE KeysLoop(_, _, _, _, _, _)

\* One turn of the loop, k being what getClientNodeByKey gave.
KeysTurn(map, req, i, last_key, key_step, acc, k) ==
    IF k.node = NilNode THEN [acc EXCEPT !.slot = k.slot]
    ELSE IF acc.node = NilNode
    THEN KeysLoop(map, req, i + key_step, last_key, key_step,
                  [acc EXCEPT !.node = k.node, !.slot = k.slot])
    ELSE IF acc.node # k.node
    THEN [node |-> NilNode, slot |-> k.slot,
          err |-> "Queries with keys belonging to different nodes are not supported"]
    ELSE KeysLoop(map, req, i + key_step, last_key, key_step,
                  [acc EXCEPT !.slot = k.slot])

KeysLoop(map, req, i, last_key, key_step, acc) ==
    IF i > last_key THEN acc
    ELSE KeysTurn(map, req, i, last_key, key_step, acc,
                  getNodeByKey(map, ArgBytes(req, i), acc.slot))

\* first_key, last_key and key_step as getRequestNode adjusts them.
FirstKeyOf(req) ==
    IF req.command.first_key >= req.argc THEN req.argc - 1
    ELSE req.command.first_key

LastKeyOf(req) ==
    Max(FirstKeyOf(req),
        IF req.command.last_key < 0 \/ req.command.last_key >= req.argc
        THEN req.argc - 1 ELSE req.command.last_key)

KeyStepOf(req) == Max(1, req.command.key_step)

\* getRequestNode: the request with node and slot set as the code sets
\* them, the node returned and the error text ("" for none).
getRequestNode(s, r) ==
    IF s.reqs[r].argc = 1
    THEN With(getFirstMappedNode(getClientSlotsMap(s, s.reqs[r].client)),
              LAMBDA n : [req |-> [s.reqs[r] EXCEPT !.node = n],
                          node |-> n, err |-> ""])
    ELSE IF s.reqs[r].command.first_key = 0
    THEN [req |-> s.reqs[r], node |-> NilNode, err |-> ""]
    ELSE With(KeysLoop(getClientSlotsMap(s, s.reqs[r].client), s.reqs[r],
                       FirstKeyOf(s.reqs[r]), LastKeyOf(s.reqs[r]),
                       KeyStepOf(s.reqs[r]),
                       [node |-> NilNode, slot |-> UNDEFINED_SLOT,
                        err |-> ""]),
              LAMBDA res :
                [req |-> [s.reqs[r] EXCEPT !.node = res.node,
                                           !.slot = res.slot],
                 node |-> res.node, err |-> res.err])

\* The label invalid_request of processRequest, with an error message.
InvalidRequest(s, r, msg) ==
    Ret(addReplyError(freeRequest(s, r, TRUE), s.reqs[r].client, r, msg), 1)

\* The end of processRequest: the request is on requests_to_send.
SendOrEnqueue(s, r) ==
    IF FreeToUse(s, r)
    THEN With(sendRequestToCluster(UafIf(s, TestReadsFreed(s, r)), r),
              LAMBDA t :
                IF t.halt # "" THEN t
                ELSE Ret(t, IF t.ret = 0 THEN 0 ELSE 1))
    ELSE Ret(UafIf(s, TestReadsFreed(s, r)), 1)

\* listAddNodeTail(conn->requests_to_send, req) of processRequest; queued
\* keeps what was appended, with the node and slot the request had then.
Enqueue(s, pid, r) ==
    [AddToSend(s, pid, r)
       EXCEPT !.queued = Append(@, [req |-> r, pool |-> pid,
                                    client |-> s.reqs[r].client,
                                    node |-> s.reqs[r].node,
                                    slot |-> s.reqs[r].slot,
                                    argc |-> s.reqs[r].argc])]

\* processRequest from the command definition cmd on.
RouteCommand(s, r, cmd) ==
    IF \/ cmd = NoCommand
       \/ cmd.unsupported
       \/ (cmd.arity # 1 /\ cmd.first_key = 0)
    THEN InvalidRequest(s, r, "Unsupported command")
    ELSE With(getRequestNode([s EXCEPT !.reqs[r].command = cmd], r),
              LAMBDA g :
                IF g.node = NilNode
                THEN InvalidRequest(
                         [s EXCEPT !.reqs[r] = g.req], r,
                         IF g.err # "" THEN g.err
                         ELSE "Failed to get node for query")
                ELSE SendOrEnqueue(
                         Enqueue([s EXCEPT !.reqs[r] = g.req],
                                 getClientClusterConnection(
                                     s, s.reqs[r].client),
                                 r),
                         r))

\* processRequest after a parse that returned PARSE_STATUS_OK.
RouteRequest(s, r) ==
    IF s.reqs[r].argc = 0 THEN InvalidRequest(s, r, "Invalid request")
    ELSE IF s.reqs[r].num_commands > 1
    THEN InvalidRequest(s, r,
             "Multi-command requests are not currently supported")
    ELSE IF ~AssertsOfCommand(s.reqs[r]) THEN Halt(s, "abort")
    ELSE RouteCommand(s, r, CommandLookup(getRequestCommand(s.reqs[r])))

\* The request parseRequest splits off (proxy.c 1079-1093): newbuf is the
\* rest of the buffer.
SplitOff(s, r, newbuf) ==
    IF s.nreq >= MaxReq THEN [s EXCEPT !.over = TRUE]
    ELSE [createRequest(s, s.reqs[r].client)
            EXCEPT !.reqs[s.nreq + 1].prev_request = r,
                   !.reqs[r].next_request = s.nreq + 1,
                   !.reqs[s.nreq + 1].buffer = newbuf,
                   !.clients[s.reqs[r].client].requests_to_process =
                       Append(@, s.nreq + 1)]

\* The state when parseRequest returns p.
Parsed(s, r, p) ==
    IF p.split
    THEN SplitOff([s EXCEPT !.reqs[r] = p.r, !.uaf = @ \/ s.reqs[r].freed],
                  r, p.newbuf)
    ELSE [s EXCEPT !.reqs[r] = p.r, !.uaf = @ \/ s.reqs[r].freed]

\* processRequest after parseRequest.
Process(s, r, status) ==
    IF s.over THEN s
    ELSE IF status = PARSE_STATUS_ERROR THEN Ret(s, 0)
    ELSE IF status = PARSE_STATUS_INCOMPLETE THEN Ret(s, 1)
    ELSE RouteRequest(
             [s EXCEPT !.clients[s.reqs[r].client].current_request =
                           IF @ = r THEN 0 ELSE @], r)

\* processRequest: parseRequest (with the request it may split off), then
\* the routing.
processRequest(s, r, junk) ==
    With(parseRequest(s.reqs[r], junk),
         LAMBDA p :
           IF p.hang THEN Halt(UafIf(s, s.reqs[r].freed), "hang")
           ELSE Process(Parsed(s, r, p), r, p.status))

\* The while loop of readQuery over c->requests_to_process.  When a call
\* frees the client, or frees the request through invalid_request, the loop
\* goes on reading freed memory: the list is then taken as it was left.
RECURSIVE ProcessLoop(_, _, _)

\* One turn of the loop, t being the state processRequest of r left.
ProcessTurn(t, c, r, junk) ==
    IF t.halt # "" \/ t.over THEN t
    ELSE IF t.ret = 0 THEN UafIf(freeClient(t, c), TRUE)
    ELSE IF t.reqs[r].freed THEN ProcessLoop(UafIf(t, TRUE), c, junk)
    ELSE IF t.reqs[r].parsing_status = PARSE_STATUS_INCOMPLETE THEN t
    ELSE ProcessLoop(
             [t EXCEPT !.clients[c].requests_to_process =
                           SeqRemoveFirst(@, r)], c, junk)

ProcessLoop(s, c, junk) ==
    IF s.clients[c].requests_to_process = <<>> THEN s
    ELSE ProcessTurn(
             processRequest(s, Head(s.clients[c].requests_to_process), junk),
             c, Head(s.clients[c].requests_to_process), junk)

\* readQuery once read() brought the bytes chunk.
ReadData(s, c, r, chunk, junk) ==
    With(processRequest([s EXCEPT !.reqs[r].buffer = @ \o chunk], r, junk),
         LAMBDA t :
           IF t.halt # "" \/ t.over THEN t
           ELSE IF t.ret = 0 THEN freeClient(t, c)
           ELSE ProcessLoop(t, c, junk))

\* readQuery after the request is there.
ReadInto(s, c, what, chunk, junk) ==
    IF s.over THEN s
    ELSE IF what = "err" THEN unlinkClient(s, c)
    ELSE IF what = "eof" THEN freeClient(s, c)
    ELSE ReadData(s, c, s.clients[c].current_request, chunk, junk)

\* readQuery: what = "data" (read() brought the bytes chunk), "eof" (the
\* client closed) or "err" (read() failed).
readQuery(s, c, what, chunk, junk) ==
    ReadInto(IF s.clients[c].current_request # 0 THEN s
             ELSE IF s.nreq >= MaxReq THEN [s EXCEPT !.over = TRUE]
             ELSE createRequest(s, c),
             c, what, chunk, junk)

(***************************************************************************)
(* The reply path                                                          *)
(***************************************************************************)

MULTIPLEXING_MAX_REQUEST_QUEUE_LEN == 5

\* The request leaves requests_pending and the read event is deleted
\* (proxy.c 1718-1721).
ReplyDone(s, fd, r) ==
    [aeDeleteFileEvent(DelPending(s, PoolOfRequest(s, r), r), fd, "r")
       EXCEPT !.reqs[r].has_read_handler = FALSE]

\* A reply is complete in the reader buffer buf of descriptor cfd: the whole
\* buffer (reader->buf, reader->len) goes to the client, then the reader
\* drops what the reply took (reader->pos bytes).
ReplyRead(s, fd, cfd, r, buf) ==
    LoopNextPending(
        freeRequest(
            [addReplyRaw(ReplyDone(s, fd, r), s.reqs[r].client, buf)
               EXCEPT !.reader[cfd] = Tail0(buf, ReplyLen + 1),
                      !.lastcopy = [req |-> r,
                                    frame |-> SubSeq(buf, 1, ReplyLen),
                                    appended |-> buf]],
            r, TRUE),
        s.reqs[r].client)

\* The read failed and the node was reconnected: the request is written
\* again from its first byte.
ReplyRetry(s, fd, r) ==
    LoopNextPending(
        PushToSend(
            [aeCreateFileEvent(
                 ReplyDone([s EXCEPT !.reqs[r].written = 0,
                                     !.replays[r] = @ + 1], fd, r),
                 fd, "w", r)
               EXCEPT !.reqs[r].has_write_handler = TRUE],
            PoolOfRequest(s, r), r),
        s.reqs[r].client)

\* The read failed and the node could not be reconnected.
ReplyFailed(s, fd, r) ==
    LoopNextPending(
        freeRequest(
            addReplyError(ReplyDone(s, fd, r), s.reqs[r].client, r,
                          "Cluster node disconnected"),
            r, TRUE),
        s.reqs[r].client)

\* readClusterReply after redisBufferRead failed with REDIS_ERR_EOF; s is
\* the state clusterNodeConnect left.
ReplyEof(s, fd, r) ==
    IF s.over THEN s
    ELSE IF getClusterNodeConnection(s, s.reqs[r].node) # 0
    THEN ReplyRetry(s, fd, r)
    ELSE ReplyFailed(s, fd, r)

\* readClusterReply after redisBufferRead put buf in the reader of cfd.
ReplyBuffered(s, fd, cfd, r, buf) ==
    IF Len(buf) < ReplyLen THEN [s EXCEPT !.reader[cfd] = buf]
    ELSE ReplyRead([s EXCEPT !.reader[cfd] = buf], fd, cfd, r, buf)

\* readClusterReply on the context cfd of the request's node; read() brings
\* at most k bytes.
ReplyFrom(s, fd, cfd, r, k) ==
    IF s.net[cfd].outq = <<>> /\ s.net[cfd].eof
    THEN ReplyEof(clusterNodeConnect(s, s.reqs[r].node), fd, r)
    ELSE ReplyBuffered(
             [s EXCEPT !.net[cfd].outq = Tail0(@, Min(k, Len(@)) + 1)],
             fd, cfd, r,
             s.reader[cfd]
                 \o SubSeq(s.net[cfd].outq, 1, Min(k, Len(s.net[cfd].outq))))

\* readClusterReply(el, fd, req, mask).  k is the number of bytes read()
\* brings this time.  The context read is the one of the request's node.
readClusterReply(s, fd, r, k) ==
    IF \/ s.reqs[r].node = NilNode
       \/ getClusterNodeConnection(s, s.reqs[r].node) = 0
    THEN Halt(UafIf(s, s.reqs[r].freed), "crash")
    ELSE ReplyFrom(UafIf(s, s.reqs[r].freed
                            \/ s.clients[s.reqs[r].client].freed),
                   fd, getClusterNodeConnection(s, s.reqs[r].node), r, k)

(***************************************************************************)
(* Private pools                                                           *)
(***************************************************************************)

\* createClientClusterConnection: one clone per entry of the shared map.
createClientClusterConnection(s, c) ==
    [s EXCEPT !.priv[c] =
                  [requests_to_send |-> <<>>, requests_pending |-> <<>>,
                   slots_map |-> [k \in DOMAIN SharedSlotsMap |-> CloneOf(c, k)]],
              !.clients[c].cluster_connection = TRUE]

\* A request of the shared pool becomes the client's: its node is replaced
\* by the client's clone of it.
Adopt(s, c, r) ==
    [s EXCEPT !.reqs[r].node =
                  IF @ # NilNode THEN searchNodeByName(s, c, @.name) ELSE @,
              !.reqs[r].owned_by_client = TRUE]

\* The clone is not found.
NoClone(s, c, r) ==
    /\ s.reqs[r].node # NilNode
    /\ searchNodeByName(s, c, s.reqs[r].node.name) = NilNode

\* The first loop of disableMultiplexingForClient, over what is left (l) of
\* the shared requests_to_send; pr is pipelined_request.
RECURSIVE MoveToSend(_, _, _, _)
MoveToSend(s, c, l, pr) ==
    IF l = <<>> THEN Ret(s, 1)
    ELSE IF s.reqs[Head(l)].client # c THEN MoveToSend(s, c, Tail(l), pr)
    ELSE IF s.reqs[Head(l)].has_write_handler
    THEN MoveToSend(s, c, Tail(l),
                    IF s.reqs[Head(l)].next_request # 0 THEN Head(l) ELSE pr)
    ELSE IF pr # 0 /\ s.reqs[Head(l)].prev_request = pr
    THEN MoveToSend(s, c, Tail(l), Head(l))
    ELSE IF NoClone(s, c, Head(l)) THEN Ret(s, 0)
    ELSE MoveToSend(
             [Adopt(s, c, Head(l))
                EXCEPT !.priv[c].requests_to_send = Append(@, Head(l)),
                       !.shared.requests_to_send =
                           SeqRemoveFirst(@, Head(l))],
             c, Tail(l), pr)

\* The second loop, over the shared requests_pending.
RECURSIVE MovePending(_, _, _)
MovePending(s, c, l) ==
    IF l = <<>> THEN Ret(s, 1)
    ELSE IF s.reqs[Head(l)].client # c \/ s.reqs[Head(l)].has_read_handler
    THEN MovePending(s, c, Tail(l))
    ELSE IF NoClone(s, c, Head(l)) THEN Ret(s, 0)
    ELSE MovePending(
             [Adopt(s, c, Head(l))
                EXCEPT !.priv[c].requests_pending = Append(@, Head(l)),
                       !.shared.requests_pending =
                           SeqRemoveFirst(@, Head(l))],
             c, Tail(l))

\* disableMultiplexingForClient after the private pool is there.
MoveRequests(s, c) ==
    With(MoveToSend(s, c, s.shared.requests_to_send, 0),
         LAMBDA t :
           IF t.ret = 0 THEN t
           ELSE MovePending(t, c, t.shared.requests_pending))

\* The private pool is made anew at every call.
disableMultiplexingForClientAnew(s, c) ==
    MoveRequests(createClientClusterConnection(s, c), c)

\* disableMultiplexingForClient
disableMultiplexingForClient(s, c) ==
    MoveRequests(IF ~s.clients[c].cluster_connection
                 THEN createClientClusterConnection(s, c) ELSE s, c)

(***************************************************************************)
(* Writing to clients, the pass before sleeping, new clients               *)
(***************************************************************************)

\* The end of writeToClient: the buffer is dropped once written whole; the
\* handler deleted there is the AE_READABLE one.
AfterClientWrite(s, c) ==
    IF s.clients[c].written = Len(s.clients[c].obuf)
    THEN [s EXCEPT !.clients[c].obuf = <<>>,
                   !.clients[c].written = 0,
                   !.clients[c].rd =
                       IF s.clients[c].has_write_handler THEN FALSE ELSE @,
                   !.clients[c].has_write_handler = FALSE]
    ELSE s

\* write() of n bytes of the client's buffer.
ClientWrite(s, c, n) ==
    [s EXCEPT !.clients[c].written = @ + n,
              !.cspace[c] = @ - n,
              !.out[c] = @ \o SubSeq(s.clients[c].obuf,
                                     s.clients[c].written + 1,
                                     s.clients[c].written + n)]

\* writeToClient.  The client's socket takes s.cspace[c] bytes; a closed
\* descriptor or a connection the client reset makes write() fail.
writeToClient(s, c) ==
    IF /\ Len(s.clients[c].obuf) > s.clients[c].written
       /\ (~s.clients[c].sock \/ s.cenv[c] = "reset")
    THEN Ret(freeClient(UafIf(s, s.clients[c].freed), c), 0)
    ELSE Ret(AfterClientWrite(
                 ClientWrite(UafIf(s, s.clients[c].freed), c,
                             Min(Len(s.clients[c].obuf)
                                     - s.clients[c].written,
                                 s.cspace[c])),
                 c), 1)

\* The write handler writeRepliesToClients installs for a buffer that is
\* partly written.
InstallWriteHandler(s, c) ==
    IF /\ s.ret # 0
       /\ s.clients[c].written > 0
       /\ s.clients[c].written < Len(s.clients[c].obuf)
    THEN [s EXCEPT !.clients[c].wr = TRUE,
                   !.clients[c].has_write_handler = TRUE]
    ELSE s

\* writeRepliesToClients, over what is left (l) of thread->clients.
RECURSIVE writeRepliesToClients(_, _)
writeRepliesToClients(s, l) ==
    IF l = <<>> THEN s
    ELSE writeRepliesToClients(
             InstallWriteHandler(writeToClient(s, Head(l)), Head(l)),
             Tail(l))

\* disableMultiplexingForClient for one client of the loop; the client is
\* freed when it fails.
DisableOne(s, c) ==
    With(disableMultiplexingForClient(s, c),
         LAMBDA t : IF t.ret = 0 THEN freeClient(t, c) ELSE t)

\* Only the first client of the list is given a private pool.
DisableHead(s, l) ==
    IF l = <<>> THEN s ELSE DisableOne(s, Head(l))

\* The loop of beforeThreadSleep that disables multiplexing for every client.
RECURSIVE DisableAll(_, _)
DisableAll(s, l) ==
    IF l = <<>> THEN s ELSE DisableAll(DisableOne(s, Head(l)), Tail(l))

\* The last loop of beforeThreadSleep, over the clients with a private pool.
RECURSIVE SendPrivate(_, _)
SendPrivate(s, l) ==
    IF l = <<>> \/ s.halt # "" THEN s
    ELSE IF ~s.clients[Head(l)].cluster_connection
    THEN SendPrivate(s, Tail(l))
    ELSE SendPrivate(LoopNextRequest(s, Head(l)), Tail(l))

\* The test with > where the code has >=.
disable_multiplexing_above(s) ==
    /\ s.config = "auto"
    /\ \/ Len(s.shared.requests_to_send) > MULTIPLEXING_MAX_REQUEST_QUEUE_LEN
       \/ Len(s.shared.requests_pending) > MULTIPLEXING_MAX_REQUEST_QUEUE_LEN

\* The test of beforeThreadSleep on the lengths of the shared lists.
disable_multiplexing(s) ==
    /\ s.config = "auto"
    /\ \/ Len(s.shared.requests_to_send) >= MULTIPLEXING_MAX_REQUEST_QUEUE_LEN
       \/ Len(s.shared.requests_pending) >= MULTIPLEXING_MAX_REQUEST_QUEUE_LEN

\* beforeThreadSleep after the replies are written.
SendPass(s) ==
    With(LoopNextRequest(
             IF disable_multiplexing(s) THEN DisableAll(s, s.thread_clients)
             ELSE s, 0),
         LAMBDA t :
           IF t.halt # "" THEN t ELSE SendPrivate(t, t.thread_clients))

\* beforeThreadSleep
beforeThreadSleep(s) == SendPass(writeRepliesToClients(s, s.thread_clients))

\* A client object as createClient makes it.
NewClient ==
    [status |-> CLIENT_STATUS_NONE, rd |-> FALSE, wr |-> FALSE,
     sock |-> TRUE, obuf |-> <<>>, written |-> 0,
     has_write_handler |-> FALSE, cluster_connection |-> FALSE,
     current_request |-> 0, requests_to_process |-> <<>>, freed |-> FALSE]

\* createClient without the test of the mode.
EnterShared(s, c) == Ret(s, 1)

\* createClient once the client object is there.
EnterClient(s, c) ==
    IF s.config # "always" THEN Ret(s, 1)
    ELSE With(disableMultiplexingForClient(s, c),
              LAMBDA t :
                IF t.ret = 0 THEN Ret(freeClient(t, c), 0) ELSE Ret(t, 1))

\* createClient
createClient(s, c) == EnterClient([s EXCEPT !.clients[c] = NewClient], c)

\* acceptHandler: createClient, then awakeThread queues the message and
\* writes a byte to the worker's pipe.
acceptHandler(s, c) ==
    With(createClient(s, c),
         LAMBDA t :
           IF t.ret = 0 THEN t
           ELSE [t EXCEPT !.pending_messages = Append(@, c),
                          !.pipe = @ + 1])

\* Only the first queued client is linked.
processThreadMessagesOne(s) ==
    IF s.pending_messages = <<>> THEN s
    ELSE [s EXCEPT !.pending_messages = Tail(@),
                   !.thread_clients = Append(@, Head(s.pending_messages)),
                   !.clients[Head(s.pending_messages)].rd = TRUE,
                   !.clients[Head(s.pending_messages)].status =
                       CLIENT_STATUS_LINKED]

\* processThreadMessages: every queued client is linked to the worker.
RECURSIVE processThreadMessages(_)
processThreadMessages(s) ==
    IF s.pending_messages = <<>> THEN s
    ELSE processThreadMessages(
             [s EXCEPT !.pending_messages = Tail(@),
                       !.thread_clients = Append(@, Head(s.pending_messages)),
                       !.clients[Head(s.pending_messages)].rd = TRUE,
                       !.clients[Head(s.pending_messages)].status =
                           CLIENT_STATUS_LINKED])

\* readThreadPipe
readThreadPipe(s) == processThreadMessages([s EXCEPT !.pipe = 0])

(***************************************************************************)
(* What clients send                                                       *)
(***************************************************************************)

\* "$<len>\r\n<arg>\r\n" for an argument shorter than ten bytes.
Bulk(a) == <<36, 48 + Len(a), 13, 10>> \o a \o <<13, 10>>

RECURSIVE Bulks(_)
Bulks(args) == IF args = <<>> THEN <<>> ELSE Bulk(Head(args)) \o Bulks(Tail(args))

\* The multi-bulk encoding of a command.
MultiBulk(args) == <<42, 48 + Len(args), 13, 10>> \o Bulks(args)

GET == <<71, 69, 84>>

MGET == <<77, 71, 69, 84>>

PING == <<80, 73, 78, 71>>

\* Keys: "b" and "f" hash to slots of node A, "c" to a slot of node B, "a" to
\* a slot nobody serves.
GetB == MultiBulk(<<GET, <<98>>>>)

GetF == MultiBulk(<<GET, <<102>>>>)

GetC == MultiBulk(<<GET, <<99>>>>)

MGetBAC == MultiBulk(<<MGET, <<98>>, <<97>>, <<99>>>>)

MGetBC == MultiBulk(<<MGET, <<98>>, <<99>>>>)

Ping == MultiBulk(<<PING>>)

\* GET b with '#' in the place of the '$' of its first bulk.
BadGet == [GetB EXCEPT ![5] = 35]

\* The complete commands a node understands.
Commands == {GetB, GetF, GetC, MGetBAC, MGetBC, Ping}

\* One arrival at a client's socket: bytes, the end of the stream, or a reset.
Data(b) == [k |-> "data", b |-> b]

Eof == [k |-> "eof", b |-> <<>>]

Rst == [k |-> "err", b |-> <<>>]

(***************************************************************************)
(* State                                                                   *)
(***************************************************************************)

VARIABLES
    config,            \* config.disable_multiplexing: "never", "auto", "always"
    clients,           \* the client objects
    reqs,              \* the request objects, by order of allocation
    nreq,              \* how many were allocated
    shared,            \* thread->cluster_connection
    priv,              \* c->cluster_connection of each client
    context,           \* node->context: the fd of each node object, 0 if none
    events,            \* el->events of the back-end descriptors
    thread_clients,    \* thread->clients
    pending_messages,  \* thread->pending_messages
    pipe,              \* bytes waiting in the worker's pipe
    reader,            \* ctx->reader->buf of each back-end descriptor
    net,               \* the back-end sockets
    down,              \* the nodes that refuse connections
    input,             \* what each client has still to send
    toaccept,          \* the clients that have not connected yet
    fired,             \* the events the last poll returned, not yet handled
    asleep,            \* the loop is about to run beforeThreadSleep and poll
    faults,            \* faults the environment may still cause
    hist,              \* all that was appended to each client's obuf
    out,               \* all that was written to each client's socket
    wlog,              \* all writes to back-end descriptors
    queued,            \* all that processRequest appended to a requests_to_send
    gone,              \* the clients whose connection ended or failed
    replays,           \* per request, times it was rewound for a replay
    lastcopy,          \* the last reply copied to a client
    halted,            \* "" or how the worker stopped: hang, abort, crash
    tainted,           \* some handler has read freed memory
    call               \* a function called on its own: name, argument, result

vars ==
    <<config, clients, reqs, nreq, shared, priv, context, events,
      thread_clients, pending_messages, pipe, reader, net, down, input,
      toaccept, fired, asleep, faults, hist, out, wlog, queued, gone,
      replays, lastcopy, halted, tainted, call>>

\* A socket with room for any request.
Unlimited == 128

\* The state record of the handlers, from the variables; sp and csp are
\* the room the back-end and client sockets have during this handler run.
State(sp, csp) ==
    [config |-> config, clients |-> clients, reqs |-> reqs, nreq |-> nreq,
     shared |-> shared, priv |-> priv, context |-> context,
     events |-> events, thread_clients |-> thread_clients,
     pending_messages |-> pending_messages, pipe |-> pipe,
     reader |-> reader, net |-> net, down |-> down,
     cenv |-> [c \in Clients |->
                  IF input[c] # <<>> /\ Head(input[c]).k = "err"
                  THEN "reset" ELSE "open"],
     hist |-> hist, out |-> out, wlog |-> wlog, queued |-> queued,
     replays |-> replays,
     lastcopy |-> lastcopy,
     space |-> sp, cspace |-> csp,
     ret |-> 1, uaf |-> FALSE, werr |-> FALSE, halt |-> "", over |-> FALSE]

\* The variables take the values a handler left in t.  A handler that does
\* not return, or dies, leaves the worker halted; one that read freed memory
\* may die of it or go on with what the memory held.
Commit(t) ==
    /\ ~t.over
    /\ \E die \in (IF t.uaf /\ t.halt = "" THEN {FALSE, TRUE} ELSE {FALSE}) :
         IF t.halt # "" \/ die
         THEN /\ halted' = (IF die THEN "crash" ELSE t.halt)
              /\ tainted' = (tainted \/ t.uaf)
              /\ UNCHANGED <<clients, reqs, nreq, shared, priv, context,
                             events, thread_clients, pending_messages, pipe,
                             reader, net, hist, out, wlog, queued, replays,
                             lastcopy>>
         ELSE /\ halted' = ""
              /\ tainted' = (tainted \/ t.uaf)
              /\ clients' = t.clients
              /\ reqs' = t.reqs
              /\ nreq' = t.nreq
              /\ shared' = t.shared
              /\ priv' = t.priv
              /\ context' = t.context
              /\ events' = t.events
              /\ thread_clients' = t.thread_clients
              /\ pending_messages' = t.pending_messages
              /\ pipe' = t.pipe
              /\ reader' = t.reader
              /\ net' = t.net
              /\ hist' = t.hist
              /\ out' = t.out
              /\ wlog' = t.wlog
              /\ queued' = t.queued
              /\ replays' = t.replays
              /\ lastcopy' = t.lastcopy

NoCopy == [req |-> 0, frame |-> <<>>, appended |-> <<>>]

\* What each client will send: a client without a script sends nothing and
\* never connects.
InputOf(scripts) ==
    [c \in Clients |-> IF c <= Len(scripts) THEN scripts[c] ELSE <<>>]

\* No function was called on its own.
NoCall == [fn |-> "", arg |-> <<>>, res |-> 0]

\* The state after startup, for a mode, the clients that will connect with
\* what they send, and the faults allowed.
InitWith(mode, scripts, nfaults) ==
    /\ config = mode
    /\ input = InputOf(scripts)
    /\ toaccept = {c \in Clients : InputOf(scripts)[c] # <<>>}
    /\ clients = [c \in Clients |-> [NewClient EXCEPT !.sock = FALSE]]
    /\ reqs = [r \in ReqIds |-> NewRequest(1, FALSE)]
    /\ nreq = 0
    /\ shared = EmptyConn
    /\ priv = [c \in Clients |-> EmptyConn]
    /\ context = [n \in AllNodes |-> 0]
    /\ events = [fd \in Fds |-> [rd |-> FALSE, wr |-> FALSE, data |-> 0]]
    /\ thread_clients = <<>>
    /\ pending_messages = <<>>
    /\ pipe = 0
    /\ reader = [fd \in Fds |-> <<>>]
    /\ net = [fd \in Fds |-> ClosedSock]
    /\ down = {}
    /\ fired = {}
    /\ asleep = TRUE
    /\ faults = nfaults
    /\ hist = [c \in Clients |-> <<>>]
    /\ out = [c \in Clients |-> <<>>]
    /\ wlog = <<>>
    /\ queued = <<>>
    /\ gone = {}
    /\ replays = [r \in ReqIds |-> 0]
    /\ lastcopy = NoCopy
    /\ halted = ""
    /\ tainted = FALSE
    /\ call = NoCall

(***************************************************************************)
(* The event loop of the worker                                            *)
(***************************************************************************)

\* What the handlers of the worker may change, but for the sockets.
program ==
    <<clients, reqs, nreq, shared, priv, context, events, thread_clients,
      pending_messages, pipe, reader, hist, out, wlog, queued, replays,
      lastcopy, halted, tainted>>

\* Bytes (of a reply) a congested client socket accepts in one handler run.
ClientPartialLen == 1

\* What the byte after the end of a request buffer may hold.
JunkBytes == {0, 36}

\* The room of the sockets during one handler run.
NodeRoom(slow) == [fd \in Fds |-> IF fd \in slow THEN PartialLen ELSE Unlimited]

ClientRoom(slow) ==
    [c \in Clients |-> IF c \in slow THEN ClientPartialLen ELSE Unlimited]

\* The events a poll can return now.
Ready ==
    (IF pipe > 0 THEN {<<"pipe", 0>>} ELSE {})
    \cup {<<"cr", c>> : c \in {c \in Clients :
              /\ clients[c].rd /\ clients[c].sock /\ input[c] # <<>>}}
    \cup {<<"cw", c>> : c \in {c \in Clients :
              clients[c].wr /\ clients[c].sock}}
    \cup {<<"nr", fd>> : fd \in {fd \in Fds :
              /\ events[fd].rd /\ net[fd].open
              /\ (net[fd].outq # <<>> \/ net[fd].eof)}}
    \cup {<<"nw", fd>> : fd \in {fd \in Fds :
              events[fd].wr /\ net[fd].open}}

\* An event of the batch has been handled.
Handled(e) ==
    /\ fired' = fired \ {e}
    /\ asleep' = (fired \ {e} = {})

\* The main thread accepts client c.
Accept(c) ==
    /\ halted = ""
    /\ c \in toaccept
    /\ toaccept' = toaccept \ {c}
    /\ Commit(acceptHandler(
           [State(NodeRoom({}), ClientRoom({})) EXCEPT !.clients[c].sock = TRUE],
           c))
    /\ UNCHANGED <<call, config, down, input, fired, asleep, faults, gone>>

\* beforeThreadSleep, run before every poll.
BeforeSleep(NodeSlow, ClientSlow) ==
    /\ halted = ""
    /\ asleep
    /\ \E ns \in NodeSlow, cs \in ClientSlow :
         Commit(beforeThreadSleep(State(NodeRoom(ns), ClientRoom(cs))))
    /\ asleep' = FALSE
    /\ UNCHANGED <<call, config, down, input, toaccept, fired, faults, gone>>

\* aeApiPoll returns with some of the events that are ready.
Poll ==
    /\ halted = ""
    /\ ~asleep
    /\ fired = {}
    /\ \E F \in (SUBSET Ready) \ {{}} : fired' = F
    /\ UNCHANGED <<call, program, net, config, down, input, toaccept, asleep,
                   faults, gone>>

\* readThreadPipe
ReadThreadPipe ==
    /\ halted = ""
    /\ <<"pipe", 0>> \in fired
    /\ Commit(readThreadPipe(State(NodeRoom({}), ClientRoom({}))))
    /\ Handled(<<"pipe", 0>>)
    /\ UNCHANGED <<call, config, down, input, toaccept, faults, gone>>

\* readQuery of client c, if its read event is still registered.
ReadQuery(c, NodeSlow) ==
    /\ halted = ""
    /\ <<"cr", c>> \in fired
    /\ IF clients[c].rd /\ clients[c].sock
       THEN /\ \E ns \in NodeSlow, junk \in JunkBytes :
                 Commit(readQuery(State(NodeRoom(ns), ClientRoom({})), c,
                                  Head(input[c]).k, Head(input[c]).b, junk))
            /\ input' = [input EXCEPT ![c] = Tail(@)]
            /\ gone' = IF Head(input[c]).k = "data" THEN gone
                       ELSE gone \cup {c}
       ELSE UNCHANGED <<program, net, input, gone>>
    /\ Handled(<<"cr", c>>)
    /\ UNCHANGED <<call, config, down, toaccept, faults>>

\* writeHandler of client c.
WriteHandler(c, ClientSlow) ==
    /\ halted = ""
    /\ <<"cw", c>> \in fired
    /\ IF clients[c].wr /\ clients[c].sock
       THEN \E cs \in ClientSlow :
                Commit(writeToClient(State(NodeRoom({}), ClientRoom(cs)), c))
       ELSE UNCHANGED <<program, net>>
    /\ Handled(<<"cw", c>>)
    /\ UNCHANGED <<call, config, down, input, toaccept, faults, gone>>

\* readClusterReply on descriptor fd, with the request registered there.
ReadClusterReply(fd, NodeSlow) ==
    /\ halted = ""
    /\ <<"nr", fd>> \in fired
    /\ IF events[fd].rd /\ net[fd].open
       THEN \E ns \in NodeSlow, k \in 1..Max(1, Len(net[fd].outq)) :
                Commit(readClusterReply(State(NodeRoom(ns), ClientRoom({})),
                                        fd, events[fd].data, k))
       ELSE UNCHANGED <<program, net>>
    /\ Handled(<<"nr", fd>>)
    /\ UNCHANGED <<call, config, down, input, toaccept, faults, gone>>

\* writeToClusterHandler on descriptor fd, after any read handler of the
\* same descriptor in the batch.
WriteToClusterHandler(fd, NodeSlow) ==
    /\ halted = ""
    /\ <<"nw", fd>> \in fired
    /\ <<"nr", fd>> \notin fired
    /\ IF events[fd].wr /\ net[fd].open
       THEN \E ns \in NodeSlow :
                Commit(writeToCluster(State(NodeRoom(ns), ClientRoom({})),
                                      fd, events[fd].data))
       ELSE UNCHANGED <<program, net>>
    /\ Handled(<<"nw", fd>>)
    /\ UNCHANGED <<call, config, down, input, toaccept, faults, gone>>

(***************************************************************************)
(* The cluster nodes                                                       *)
(***************************************************************************)

\* The node at the other end of fd has received a whole command and answers.
NodeReply(fd) ==
    /\ net[fd].open
    /\ ~net[fd].eof
    /\ net[fd].inq # <<>>
    /\ Head(net[fd].inq).from = 0
    /\ Head(net[fd].inq).to = Len(reqs[Head(net[fd].inq).req].buffer)
    /\ reqs[Head(net[fd].inq).req].buffer \in Commands
    /\ net' = [net EXCEPT ![fd].inq = Tail(@),
                          ![fd].outq = @ \o ReplyFrame(Head(net[fd].inq).req)]
    /\ UNCHANGED <<call, program, config, down, input, toaccept, fired, asleep,
                   faults, gone>>

\* The node at the other end of fd closes the connection.
NodeClose(fd) ==
    /\ faults > 0
    /\ net[fd].open
    /\ ~net[fd].eof
    /\ net' = [net EXCEPT ![fd].eof = TRUE, ![fd].inq = <<>>]
    /\ faults' = faults - 1
    /\ UNCHANGED <<call, program, config, down, input, toaccept, fired, asleep,
                   gone>>

\* Node n stops accepting connections.
NodeDown(n) ==
    /\ faults > 0
    /\ n \notin down
    /\ down' = down \cup {n}
    /\ faults' = faults - 1
    /\ UNCHANGED <<call, program, net, config, input, toaccept, fired, asleep,
                   gone>>

(***************************************************************************)
(* Specifications                                                          *)
(***************************************************************************)

\* Two clients of a worker that shares its connections; the sockets of the
\* nodes and of client 1 may be congested.  A client sends whole commands,
\* one command in two reads, or a command that is not well formed.
Scripts ==
    { <<<<Data(GetB), Data(GetB)>>, <<Data(GetB)>>>>,
      <<<<Data(GetB), Data(GetC)>>, <<>>>>,
      <<<<Data(MGetBAC)>>, <<Data(Ping)>>>>,
      <<<<Data(SubSeq(GetB, 1, Len(GetB) - 1)), Data(<<10>>)>>,
        <<Data(MGetBC)>>>>,
      <<<<Data(BadGet)>>, <<Data(GetF)>>>> }

Init == \E sc \in Scripts : InitWith("never", sc, 0)

Next ==
    \/ \E c \in Clients : Accept(c)
    \/ BeforeSleep(SUBSET Fds, {{}, {1}})
    \/ Poll
    \/ ReadThreadPipe
    \/ \E c \in Clients : ReadQuery(c, SUBSET Fds)
    \/ \E c \in Clients : WriteHandler(c, {{}, {1}})
    \/ \E fd \in Fds : ReadClusterReply(fd, SUBSET Fds)
    \/ \E fd \in Fds : WriteToClusterHandler(fd, SUBSET Fds)
    \/ \E fd \in Fds : NodeReply(fd)

Spec == Init /\ [][Next]_vars

\* The same worker with nodes that close connections and refuse new ones.
InitFaults == InitWith("never", <<<<Data(GetB)>>, <<>>>>, MaxFaults)

NextFaults ==
    \/ Next
    \/ \E fd \in Fds : NodeClose(fd)
    \/ \E n \in NodeNames : NodeDown(n)

SpecFaults == InitFaults /\ [][NextFaults]_vars

\* The same faults when the client sends a second command while the first
\* is waiting for its reply.
InitOutage == InitWith("never", <<<<Data(GetB), Data(GetB)>>, <<>>>>, MaxFaults)

SpecOutage == InitOutage /\ [][NextFaults]_vars

\* A worker in mode auto: a client pipelines as many commands as the
\* threshold of the shared lists, then closes.
Pipeline ==
    GetB \o GetB \o GetB \o GetB \o GetB

\* A command the proxy does not support.
KeysX == MultiBulk(<< <<75, 69, 89, 83>>, <<120>> >>)

\* Client 1 pipelines five commands and closes; or it pipelines them behind
\* one the proxy answers itself, and resets its connection.
AutoScripts ==
    { <<<<Data(Pipeline), Eof>>, <<Data(GetF)>>>>,
      <<<<Data(KeysX \o Pipeline), Rst>>, <<Data(GetF)>>>> }

InitAuto == \E sc \in AutoScripts : InitWith("auto", sc, 0)

\* The sockets of the nodes are never congested here.
NextAuto ==
    \/ \E c \in Clients : Accept(c)
    \/ BeforeSleep({{}}, {{}, {1}})
    \/ Poll
    \/ ReadThreadPipe
    \/ \E c \in Clients : ReadQuery(c, {{}})
    \/ \E c \in Clients : WriteHandler(c, {{}, {1}})
    \/ \E fd \in Fds : ReadClusterReply(fd, {{}})
    \/ \E fd \in Fds : NodeReply(fd)

SpecAuto == InitAuto /\ [][NextAuto]_vars

\* Mode auto again: client 1 pipelines five commands and closes, client 2
\* sends a command before the demotion and one after it.
InitDemote ==
    InitWith("auto", <<<<Data(Pipeline), Eof>>, <<Data(GetF), Data(GetF)>>>>, 0)

SpecDemote == InitDemote /\ [][NextAuto]_vars

\* Mode auto: client 1 pipelines five commands, client 2 sends a command in
\* two parts, so that the demotion may come between the two.
InitLate ==
    InitWith("auto",
             <<<<Data(Pipeline)>>,
               <<Data(SubSeq(GetF, 1, 5)), Data(Tail0(GetF, 6))>>>>, 0)

\* Neither the sockets of the nodes nor those of the clients are congested.
NextLate ==
    \/ \E c \in Clients : Accept(c)
    \/ BeforeSleep({{}}, {{}})
    \/ Poll
    \/ ReadThreadPipe
    \/ \E c \in Clients : ReadQuery(c, {{}})
    \/ \E fd \in Fds : ReadClusterReply(fd, {{}})
    \/ \E fd \in Fds : NodeReply(fd)

SpecLate == InitLate /\ [][NextLate]_vars

\* All but the variable call.
machine ==
    <<program, net, config, down, input, toaccept, fired, asleep, faults,
      gone>>

\* The keys clusterKeyHashSlot is called on: up to HashKeyLen bytes among
\* '{', '}', 'a' and 'b'.
HashKeyLen == 4

HashKeys == UNION {[1..n -> {123, 125, 97, 98}] : n \in 0..HashKeyLen}

Hashes == {"crc16", "len", "sum", "last"}

\* clusterKeyHashSlot(key, keylen), called once on its own, with each hash.
KeyHashSlot(key) ==
    /\ call.fn = ""
    /\ call' = [fn |-> "clusterKeyHashSlot", arg |-> key,
                res |-> [h \in Hashes |-> clusterKeyHashSlotWith(h, key)]]
    /\ UNCHANGED machine

InitCalls == InitWith("never", <<>>, 0)

NextHash == \E key \in HashKeys : KeyHashSlot(key)

SpecHash == InitCalls /\ [][NextHash]_vars

\* The slots the node tables are made of: end points around a byte boundary
\* of the big endian key, and the first and last slot.
SlotPoints == {0, 255, 256, 5460, 16383}

\* The slots looked up: the end points and their neighbours.
Probes == {s \in 0..16383 : \E p \in SlotPoints : s \in (p - 1)..(p + 1)}

\* The slot definitions of a CLUSTER NODES line: "N-M" or a single slot.
SlotsDefs ==
    {<<n>> : n \in SlotPoints}
    \cup {d \in SlotPoints \X SlotPoints : d[1] < d[2]}

\* The slots a definition claims.
Claimed(def) == def[1]..def[Len(def)]

\* Slot definitions per line of a node table.
MaxDefs == 2

DefsLines == UNION {[1..n -> SlotsDefs] : n \in 0..MaxDefs}

\* All the definitions of a table, as <<line, position>>.
DefsOf(table) ==
    {d \in (1..Len(table)) \X (1..MaxDefs) : d[2] <= Len(table[d[1]].slots)}

\* No slot is claimed twice, as in the CLUSTER NODES reply of a cluster.
Disjoint(table) ==
    \A d1 \in DefsOf(table), d2 \in DefsOf(table) :
        d1 # d2 => Claimed(table[d1[1]].slots[d1[2]])
                       \cap Claimed(table[d2[1]].slots[d2[2]]) = {}

NodeTables ==
    {table \in {<<[name |-> "A", slots |-> a], [name |-> "B", slots |-> b]>> :
                   a \in DefsLines, b \in DefsLines} : Disjoint(table)}

\* fetchClusterConfiguration on a node table, then searchNodeBySlot on every
\* probe, called once on their own.
SearchSlots(table) ==
    /\ call.fn = ""
    /\ call' = [fn |-> "searchNodeBySlot", arg |-> table,
                res |-> [s \in Probes |->
                           searchNodeBySlot(
                               fetchClusterConfiguration(EmptyRax, table), s)]]
    /\ UNCHANGED machine

NextSlots == \E table \in NodeTables : SearchSlots(table)

SpecSlots == InitCalls /\ [][NextSlots]_vars

\* What a caller sees of a call of parseRequest: whether it returns, the
\* status, and the arguments and the bytes of the request.
Parsed1(x) ==
    [hang |-> x.hang, status |-> x.status, argc |-> x.r.argc,
     offsets |-> x.r.offsets, lengths |-> x.r.lengths,
     buffer |-> x.r.buffer]

\* parseRequest on a new request that holds the bytes buf.
ParseOf(buf, junk) ==
    parseRequest([NewRequest(1, FALSE) EXCEPT !.buffer = buf], junk)

\* The second read of readQuery: the bytes are appended to the buffer of
\* the request the first call x left, and parseRequest is called again.
ParseMore(x, more, junk) ==
    parseRequest([x.r EXCEPT !.buffer = @ \o more], junk)

\* A command arrives in one read, and in two reads of k bytes and the rest.
ParseInTwo(cmd, k, junk) ==
    /\ call.fn = ""
    /\ call' = [fn |-> "parseRequest", arg |-> <<cmd, k, junk>>,
                res |-> [whole |-> Parsed1(ParseOf(cmd, junk)),
                         first |-> Parsed1(ParseOf(SubSeq(cmd, 1, k), junk)),
                         second |-> Parsed1(
                             ParseMore(ParseOf(SubSeq(cmd, 1, k), junk),
                                       Tail0(cmd, k + 1), junk))]]
    /\ UNCHANGED machine

\* Multi-bulk buffers with a bulk of length zero or of negative length,
\* alone, before another bulk and behind one.
EmptyBulk == <<36, 48, 13, 10, 13, 10>>

NegativeBulk == <<36, 45, 49, 13, 10>>

OddBuffers ==
    { <<42, 49, 13, 10>> \o EmptyBulk,
      <<42, 49, 13, 10>> \o NegativeBulk,
      <<42, 50, 13, 10>> \o EmptyBulk \o Bulk(GET),
      <<42, 50, 13, 10>> \o NegativeBulk \o Bulk(GET),
      <<42, 50, 13, 10>> \o Bulk(GET) \o EmptyBulk,
      <<42, 50, 13, 10>> \o Bulk(GET) \o NegativeBulk,
      <<42, 48, 13, 10>>,
      <<42, 45, 49, 13, 10>> }

\* parseRequest on a whole buffer.
ParseOnce(buf, junk) ==
    /\ call.fn = ""
    /\ call' = [fn |-> "parseRequest", arg |-> <<buf, 0, junk>>,
                res |-> [whole |-> Parsed1(ParseOf(buf, junk)),
                         first |-> Parsed1(ParseOf(buf, junk)),
                         second |-> Parsed1(ParseOf(buf, junk))]]
    /\ UNCHANGED machine

NextParse ==
    \/ \E cmd \in Commands, junk \in JunkBytes :
          \E k \in 1..(Len(cmd) - 1) : ParseInTwo(cmd, k, junk)
    \/ \E buf \in OddBuffers \cup Commands, junk \in JunkBytes :
          ParseOnce(buf, junk)

SpecParse == InitCalls /\ [][NextParse]_vars

\* Keys at the ends of the ranges: "la2" hashes to slot 0 and "gue" to slot
\* 5460 (node A), "wr5" to slot 5461 and "bxv" to slot 10922 (node B).
RouteKeys ==
    { <<98>>, <<102>>, <<99>>, <<97>>, <<108, 97, 50>>, <<103, 117, 101>>,
      <<119, 114, 53>>, <<98, 120, 118>> }

RouteCommands ==
    {MultiBulk(<<MGET, k1, k2>>) : k1, k2 \in RouteKeys}
    \cup {MultiBulk(<<GET, k>>) : k \in RouteKeys}
    \cup {Ping}

\* The request parseRequest and the command lookup of processRequest make
\* of the bytes cmd.
RequestOf(cmd) ==
    With(ParseOf(cmd, 0).r,
         LAMBDA req : [req EXCEPT !.command =
                                      CommandLookup(getRequestCommand(req))])

\* getRequestNode with the slot map map: the node, the slot and the error.
RouteWith(map, req) ==
    IF req.argc = 1
    THEN [node |-> getFirstMappedNode(map), slot |-> UNDEFINED_SLOT,
          err |-> ""]
    ELSE IF req.command.first_key = 0
    THEN [node |-> NilNode, slot |-> UNDEFINED_SLOT, err |-> ""]
    ELSE KeysLoop(map, req, FirstKeyOf(req), LastKeyOf(req), KeyStepOf(req),
                  [node |-> NilNode, slot |-> UNDEFINED_SLOT, err |-> ""])

\* The slot map createClientClusterConnection makes for client c.
PrivateSlotsMap(c) == [k \in DOMAIN SharedSlotsMap |-> CloneOf(c, k)]

\* A command is routed with the shared map and with the map of client c.
Route(cmd, c) ==
    /\ call.fn = ""
    /\ call' = [fn |-> "getRequestNode", arg |-> <<cmd, c>>,
                res |-> [shared |-> RouteWith(SharedSlotsMap, RequestOf(cmd)),
                         private |-> RouteWith(PrivateSlotsMap(c),
                                               RequestOf(cmd))]]
    /\ UNCHANGED machine

NextRoute == \E cmd \in RouteCommands, c \in Clients : Route(cmd, c)

SpecRoute == InitCalls /\ [][NextRoute]_vars

\* The worker threads that share the nodes of proxy.cluster: each has its own
\* slot node->context[thread_id].
NumThreads == 2
Workers == 1..NumThreads

\* The threads inside clusterNodeConnect. at[w] is where worker w is: node ""
\* when it is outside, else the node and the stage ("enter" before the old
\* handle is closed, "closed" before redisConnect, "opened" before the
\* handle is stored); slot[n][w] is 1 when node->context[w] holds a handle;
\* connection_mutex[n] is the thread that holds the mutex of n, 0 for none.
Connects ==
    IF call.fn = "connects" THEN call.res
    ELSE [at |-> [w \in Workers |-> [node |-> "", stage |-> ""]],
          slot |-> [n \in NodeNames |-> [w \in Workers |-> 0]],
          connection_mutex |-> [n \in NodeNames |-> 0]]

Connecting(w, n) == Connects.at[w].node = n

SetConnects(x) ==
    /\ call.fn \in {"", "connects"}
    /\ call' = [fn |-> "connects", arg |-> <<>>, res |-> x]
    /\ UNCHANGED machine

\* sendRequestToCluster on worker w: the slot of the node is empty and it
\* calls clusterNodeConnect; connection_mutex is not taken.
SendConnect(w, n) ==
    /\ Connecting(w, "")
    /\ Connects.slot[n][w] = 0
    /\ SetConnects([Connects EXCEPT
                      !.at[w] = [node |-> n, stage |-> "enter"]])

\* readClusterReply on worker w: the read of the handle failed and it calls
\* clusterNodeConnect; connection_mutex is not taken.
ReplyReconnect(w, n) ==
    /\ Connecting(w, "")
    /\ Connects.slot[n][w] = 1
    /\ SetConnects([Connects EXCEPT
                      !.at[w] = [node |-> n, stage |-> "enter"]])

\* clusterNodeConnect: the handle of the slot, if any, is closed.
ConnectClose(w) ==
    /\ Connects.at[w].stage = "enter"
    /\ SetConnects([Connects EXCEPT !.at[w].stage = "closed"])

\* clusterNodeConnect: redisConnect; a failure clears the slot and returns.
ConnectOpen(w, ok) ==
    /\ Connects.at[w].stage = "closed"
    /\ SetConnects(
         IF ok THEN [Connects EXCEPT !.at[w].stage = "opened"]
         ELSE [Connects EXCEPT
                 !.slot[Connects.at[w].node][w] = 0,
                 !.at[w] = [node |-> "", stage |-> ""]])

\* clusterNodeConnect: the handle is stored in the slot.
ConnectStore(w) ==
    /\ Connects.at[w].stage = "opened"
    /\ SetConnects([Connects EXCEPT
                      !.slot[Connects.at[w].node][w] = 1,
                      !.at[w] = [node |-> "", stage |-> ""]])

NextConnect ==
    \E w \in Workers :
        \/ \E n \in NodeNames : SendConnect(w, n)
        \/ \E n \in NodeNames : ReplyReconnect(w, n)
        \/ ConnectClose(w)
        \/ \E ok \in BOOLEAN : ConnectOpen(w, ok)
        \/ ConnectStore(w)

SpecConnect == InitCalls /\ [][NextConnect]_vars

\* The two fixed modes: client 1 sends two commands and closes, client 2 sends
\* one command, which arrives in two parts.
InitFixed ==
    \E mode \in {"never", "always"} :
        InitWith(mode,
                 <<<<Data(GetB), Data(GetC), Eof>>,
                   <<Data(SubSeq(GetF, 1, 5)), Data(Tail0(GetF, 6))>>>>, 0)

SpecFixed == InitFixed /\ [][NextAuto]_vars

\* Mode never: client 1 sends a command, client 2 sends a command and its
\* connection is reset.
InitReset ==
    InitWith("never", <<<<Data(GetC)>>, <<Data(GetB), Rst>>>>, 0)

SpecReset == InitReset /\ [][NextAuto]_vars

\* Mode never: one read of client 1 brings a command and the first bytes of
\* a second one, a later read brings the rest; client 2 sends a command.
InitTail ==
    InitWith("never",
             <<<<Data(GetB \o SubSeq(GetF, 1, 5)), Data(Tail0(GetF, 6))>>,
               <<Data(GetC)>>>>, 0)

SpecTail == InitTail /\ [][NextLate]_vars

\* Mode auto: client 1 pipelines five commands for one slot and a sixth for
\* another slot of the same node; client 2 sends a command.
InitChain ==
    InitWith("auto", <<<<Data(Pipeline \o GetF)>>, <<Data(GetC)>>>>, 0)

SpecChain == InitChain /\ [][NextLate]_vars

\* A client pipelines two commands for two slots of one node and sends a
\* third command while the first waits for its reply.
InitPeer ==
    InitWith("never", <<<<Data(GetB \o GetF), Data(GetB)>>, <<Data(GetC)>>>>, 0)

SpecPeer == InitPeer /\ [][NextLate]_vars

\* The main thread and the worker as two threads.  call holds where each is
\* (NoCall: the main thread idle, the worker in its loop, the mutex free):
\* main is "idle", "created" (createClient returned for client who),
\* "locked" (in awakeThread with new_message_mutex) or "appended" (the
\* message queued, the mutex released, the byte not yet written); worker is
\* "loop", "read" (readThreadPipe has read the pipe) or "locked" (in
\* processThreadMessages with the mutex); mutex is "", "main" or "worker";
\* pool is the set of the threads that walked or changed the lists of the
\* worker's shared pool (thread->cluster_connection).
Threads ==
    IF call.fn = "threads" THEN call.res
    ELSE [main |-> "idle", who |-> 0, worker |-> "loop", mutex |-> "",
          pool |-> {}]

\* createClient calls disableMultiplexingForClient in mode always, which
\* walks requests_to_send and requests_pending of the shared pool of the
\* client's worker (getClientThread(c)->cluster_connection).
createClientWalksShared(s, c) == s.config = "always"

\* The main thread accepts client c: createClient.
MainCreate(c) ==
    /\ halted = ""
    /\ Threads.main = "idle"
    /\ c \in toaccept
    /\ toaccept' = toaccept \ {c}
    /\ Commit(createClient(
           [State(NodeRoom({}), ClientRoom({})) EXCEPT !.clients[c].sock = TRUE],
           c))
    /\ call' = [fn |-> "threads", arg |-> <<>>,
                res |-> [Threads EXCEPT
                            !.main = "created", !.who = c,
                            !.pool = IF createClientWalksShared(
                                          State(NodeRoom({}), ClientRoom({})), c)
                                     THEN @ \cup {"main"} ELSE @]]
    /\ UNCHANGED <<config, down, input, fired, asleep, faults, gone>>

\* awakeThread: pthread_mutex_lock(&thread->new_message_mutex).
MainLock ==
    /\ Threads.main = "created"
    /\ Threads.mutex = ""
    /\ call' = [fn |-> "threads", arg |-> <<>>,
                res |-> [Threads EXCEPT !.main = "locked", !.mutex = "main"]]
    /\ UNCHANGED machine

\* awakeThread: listAddNodeTail(thread->pending_messages, msg) and the
\* unlock.
MainAppend ==
    /\ Threads.main = "locked"
    /\ Commit([State(NodeRoom({}), ClientRoom({}))
                 EXCEPT !.pending_messages = Append(@, Threads.who)])
    /\ call' = [fn |-> "threads", arg |-> <<>>,
                res |-> [Threads EXCEPT !.main = "appended", !.mutex = ""]]
    /\ UNCHANGED <<config, down, input, toaccept, fired, asleep, faults, gone>>

\* awakeThread: write() of one byte to the worker's pipe.
MainWrite ==
    /\ Threads.main = "appended"
    /\ pipe' = pipe + 1
    /\ call' = [fn |-> "threads", arg |-> <<>>,
                res |-> [Threads EXCEPT !.main = "idle"]]
    /\ UNCHANGED <<clients, reqs, nreq, shared, priv, context, events,
                   thread_clients, pending_messages, reader, hist, out, wlog,
                   queued, replays, lastcopy, halted, tainted, net, config,
                   down, input, toaccept, fired, asleep, faults, gone>>

\* readThreadPipe: the pipe is readable and read() takes what is in it.
WorkerRead ==
    /\ halted = ""
    /\ Threads.worker = "loop"
    /\ pipe > 0
    /\ Commit([State(NodeRoom({}), ClientRoom({})) EXCEPT !.pipe = 0])
    /\ call' = [fn |-> "threads", arg |-> <<>>,
                res |-> [Threads EXCEPT !.worker = "read"]]
    /\ UNCHANGED <<config, down, input, toaccept, fired, asleep, faults, gone>>

\* processThreadMessages: pthread_mutex_lock.
WorkerLock ==
    /\ Threads.worker = "read"
    /\ Threads.mutex = ""
    /\ call' = [fn |-> "threads", arg |-> <<>>,
                res |-> [Threads EXCEPT !.worker = "locked",
                                        !.mutex = "worker"]]
    /\ UNCHANGED machine

\* processThreadMessages: the loop over pending_messages and the unlock.
WorkerDrain ==
    /\ Threads.worker = "locked"
    /\ Commit(processThreadMessages(State(NodeRoom({}), ClientRoom({}))))
    /\ call' = [fn |-> "threads", arg |-> <<>>,
                res |-> [Threads EXCEPT !.worker = "loop", !.mutex = ""]]
    /\ UNCHANGED <<config, down, input, toaccept, fired, asleep, faults, gone>>

\* beforeThreadSleep on the worker: it walks the shared pool.
WorkerPass ==
    /\ halted = ""
    /\ Threads.worker = "loop"
    /\ "worker" \notin Threads.pool
    /\ Commit(beforeThreadSleep(State(NodeRoom({}), ClientRoom({}))))
    /\ call' = [fn |-> "threads", arg |-> <<>>,
                res |-> [Threads EXCEPT !.pool = @ \cup {"worker"}]]
    /\ UNCHANGED <<config, down, input, toaccept, fired, asleep, faults, gone>>

MainStep ==
    \/ \E c \in Clients : MainCreate(c)
    \/ MainLock
    \/ MainAppend

WorkerStep ==
    \/ WorkerRead
    \/ WorkerLock
    \/ WorkerDrain

MainCanStep ==
    \/ Threads.main = "idle" /\ toaccept # {} /\ halted = ""
    \/ Threads.main = "created" /\ Threads.mutex = ""
    \/ Threads.main = "locked"

WorkerCanStep ==
    \/ Threads.worker = "loop" /\ pipe > 0 /\ halted = ""
    \/ Threads.worker = "read" /\ Threads.mutex = ""
    \/ Threads.worker = "locked"

InitBridge ==
    \E mode \in {"never", "auto", "always"} :
        InitWith(mode, <<<<Data(GetB)>>, <<Data(GetC)>>>>, 0)

NextBridge == MainStep \/ MainWrite \/ WorkerStep

\* The two threads with the passes of the worker over its pool.
SpecThreads == InitBridge /\ [][NextBridge \/ WorkerPass]_vars

\* Both threads keep running.
SpecBridge ==
    /\ InitBridge /\ [][NextBridge]_vars
    /\ ([]<>(~MainCanStep) \/ []<><<MainStep>>_vars)
    /\ ([]<>(~WorkerCanStep) \/ []<><<WorkerStep>>_vars)
    /\ WF_vars(MainWrite)

\* Fair scheduling: client 1 sends two commands, one after the other, and
\* client 2 sends one; the clients stay connected and the nodes answer.
InitLive ==
    InitWith("never", <<<<Data(GetB), Data(GetB)>>, <<Data(GetC)>>>>, 0)

\* The steps of the proxy: the main thread and the loop of the worker.
ProxyStep ==
    \/ \E c \in Clients : Accept(c)
    \/ BeforeSleep({{}}, {{}})
    \/ Poll
    \/ ReadThreadPipe
    \/ \E c \in Clients : ReadQuery(c, {{}})
    \/ \E fd \in Fds : ReadClusterReply(fd, {{}})

\* The steps of the nodes.
NodeStep == \E fd \in Fds : NodeReply(fd)

NextLive == ProxyStep \/ NodeStep

\* The proxy can take a step: a client waits to be accepted, the loop is
\* before a pass or a poll that has something to return, or an event that
\* was returned is not handled yet.
ProxyCanStep ==
    /\ halted = ""
    /\ \/ toaccept # {}
       \/ asleep
       \/ fired # {}
       \/ Ready # {}

\* The proxy goes on while it has something to do (weak fairness of its
\* steps, with the enabling condition written out), and a node answers a
\* command it has received.
SpecLive ==
    /\ InitLive /\ [][NextLive]_vars
    /\ ([]<>(~ProxyCanStep) \/ []<><<ProxyStep>>_vars)
    /\ WF_vars(NodeStep)

(***************************************************************************)
(* Properties                                                              *)
(***************************************************************************)

\* The requests routing has appended to a requests_to_send list.
Routed == {queued[i].req : i \in 1..Len(queued)}

\* The places in client c's output at which something for request r was
\* appended: a reply of a node to r, or an error about r.
Answers(c, r) == {k \in 1..Len(hist[c]) : hist[c][k].req = r}

\* The answer to r2 came to the client's output when none to r1 was there.
AnsweredFirst(c, r2, r1) ==
    \E k \in Answers(c, r2) : \A m \in Answers(c, r1) : k < m

\* Entries i < j of queued are of two requests of one client on one pool.
SameClientAndPool(i, j) ==
    /\ i < j
    /\ queued[i].req # queued[j].req
    /\ queued[i].client = queued[j].client
    /\ queued[i].pool = queued[j].pool

\* C1: of two requests of a client that were routed to the same slot and
\* enqueued on the same pool, the one enqueued first is answered first in
\* the client's output buffer (as long as no handler has read freed memory).
C1_SameSlotRepliesInOrder ==
    tainted \/
    \A i, j \in 1..Len(queued) :
        (SameClientAndPool(i, j) /\ queued[i].slot = queued[j].slot)
            => ~AnsweredFirst(queued[i].client, queued[j].req, queued[i].req)

\* C2: the requests of a client on one pool are answered in the client's
\* output buffer in the order they arrived, also when they go to different
\* slots or nodes (as long as no handler has read freed memory).
C2_RepliesInArrivalOrder ==
    tainted \/
    \A i, j \in 1..Len(queued) :
        (SameClientAndPool(i, j) /\ queued[i].req < queued[j].req)
            => ~AnsweredFirst(queued[i].client, queued[j].req, queued[i].req)

\* Write i left its request partly written on its descriptor, and nothing
\* more of that request was written there before write j.
OpenAt(i, j) ==
    /\ i < j
    /\ wlog[i].fd = wlog[j].fd
    /\ wlog[i].to < Len(reqs[wlog[i].req].buffer)
    /\ \A k \in (i + 1)..(j - 1) :
           ~(wlog[k].fd = wlog[i].fd /\ wlog[k].req = wlog[i].req)

\* C3: on one back-end descriptor no byte of a request of a client is
\* written while a request of another client is partly written there (as
\* long as no handler has read freed memory).
C3_NoInterleavedClients ==
    tainted \/
    \A i, j \in 1..Len(wlog) :
        OpenAt(i, j) => reqs[wlog[i].req].client = reqs[wlog[j].req].client

\* The bytes of request r written to the nodes, in the order of the writes.
RECURSIVE WrittenBytes(_, _)
WrittenBytes(r, n) ==
    IF n = 0 THEN <<>>
    ELSE IF wlog[n].req # r THEN WrittenBytes(r, n - 1)
    ELSE WrittenBytes(r, n - 1)
             \o SubSeq(reqs[r].buffer, wlog[n].from + 1, wlog[n].to)

\* C4: a request that was written whole to its node was written with the
\* bytes of the command the client sent, with all its bytes.
C4_WrittenBytesAreTheCommand ==
    \A r \in Routed :
        reqs[r].written = Len(reqs[r].buffer) /\ replays[r] = 0
            => WrittenBytes(r, Len(wlog)) \in Commands

\* C5: what is appended to the client's output buffer when a reply is
\* complete is the frame of that reply and nothing else.
C5_AppendedIsOneFrame ==
    lastcopy.req # 0 => lastcopy.appended = lastcopy.frame

\* C6: a client is torn down only when its connection ended or failed, never
\* for an error of one of its requests.
C6_RequestErrorKeepsClient ==
    \A c \in Clients :
        clients[c].freed
            => \/ c \in gone
               \/ (input[c] # <<>> /\ Head(input[c]).k = "err")

\* C7: a request is rewound for a replay at most once.
C7_AtMostOneReplay == \A r \in ReqIds : replays[r] <= 1

\* The requests on the lists of the shared pool and of the private pools.
OnLists(conn) ==
    SeqToSet(conn.requests_to_send) \cup SeqToSet(conn.requests_pending)

OnAnyList == OnLists(shared) \cup UNION {OnLists(priv[c]) : c \in Clients}

\* C8: no request of a client that was torn down is on a list of a pool (as
\* long as no handler has read freed memory).
C8_NoRequestOfFreedClient ==
    tainted \/ \A r \in OnAnyList : ~clients[reqs[r].client].freed

\* The nodes the keys of the parsed request r resolve to in the shared map.
KeyPositions(req) ==
    {i \in FirstKeyOf(req)..LastKeyOf(req) :
        (i - FirstKeyOf(req)) % KeyStepOf(req) = 0}

KeyNodes(req) ==
    {getNodeByKey(SharedSlotsMap, ArgBytes(req, i), UNDEFINED_SLOT).node :
        i \in KeyPositions(req)} \ {NilNode}

\* C9: a request with keys of two different nodes is not enqueued and
\* nothing of it is written to a node.
C9_TwoNodesNeverRouted ==
    \A i \in 1..Len(queued) :
        queued[i].argc > 1
            => Cardinality(KeyNodes(reqs[queued[i].req])) < 2

\* The slot map the requests of pool pid are routed with.
MapOfPool(pid) == IF pid = 0 THEN SharedSlotsMap ELSE priv[pid].slots_map

IsPass == asleep /\ ~asleep' /\ halted' = ""

\* A shared list is as long as the threshold of demotion.
QueuesLong ==
    \/ Len(shared.requests_to_send) >= MULTIPLEXING_MAX_REQUEST_QUEUE_LEN
    \/ Len(shared.requests_pending) >= MULTIPLEXING_MAX_REQUEST_QUEUE_LEN

\* The clients that have a private pool.
Private == {c \in Clients : clients[c].cluster_connection}

SharedOwners == {reqs[r].client : r \in OnLists(shared)}

RECURSIVE BehindWrite(_)
BehindWrite(r) ==
    /\ r \in SeqToSet(shared.requests_to_send)
    /\ \/ reqs[r].has_write_handler
       \/ reqs[r].prev_request # 0 /\ BehindWrite(reqs[r].prev_request)

\* What disableMultiplexingForClient leaves on the shared pool: a request
\* being written or waiting behind one, and a request whose reply is awaited
\* by a read handler.
StaysShared(r) ==
    \/ BehindWrite(r)
    \/ r \in SeqToSet(shared.requests_pending) /\ reqs[r].has_read_handler

\* A pass that demotes gives every client of the worker a private pool; of
\* the requests of these clients that were on the shared pool before the pass,
\* only the ones that were being written (or waited behind one) or read are
\* still on the shared pool after it.
DemotionMovesIdleRequests ==
    (IsPass /\ config = "auto" /\ QueuesLong
        /\ thread_clients' = thread_clients)
      => /\ \A c \in SeqToSet(thread_clients) :
                clients'[c].cluster_connection
         /\ \A r \in OnLists(shared) \cap OnLists(shared') :
                (~reqs[r].freed /\ reqs'[r].client \in SeqToSet(thread_clients))
                    => StaysShared(r)

\* A request of a client that has a private pool is enqueued on that pool.
DemotedTakePrivatePath ==
    \A i \in (Len(queued) + 1)..Len(queued') :
        clients[queued'[i].client].cluster_connection
            => queued'[i].pool = queued'[i].client

KeepsPrivatePool ==
    \A c \in Clients :
        (clients[c].cluster_connection /\ ~clients[c].freed)
          => clients'[c].cluster_connection \/ clients'[c].freed

\* The requests on the lists of the private pools of the live clients.
OnPrivateLists ==
    UNION {OnLists(priv[c]) :
             c \in {d \in Clients : clients[d].cluster_connection
                                       /\ ~clients[d].freed}}

\* C13: demotion is one-way.  In every step, a client that has a private
\* pool keeps it unless the step destroys the client, and no request that is
\* on a list of a private pool is on a list of the shared pool afterwards.
C13_DemotionOneWay ==
    [][/\ KeepsPrivatePool
       /\ OnPrivateLists \cap OnLists(shared') = {}]_vars

\* The clients that were created (they wait for the worker in its messages,
\* or are on its list) and not destroyed.
Created ==
    {c \in SeqToSet(pending_messages) \cup SeqToSet(thread_clients) :
        ~clients[c].freed}

\* C14: in mode never no client ever has a private pool.  In mode always
\* every client has a private pool from its creation on, and no request is
\* ever enqueued on the shared pool: every routed request was appended to a
\* list of its client's private pool, and the shared lists stay empty.
C14_FixedModes ==
    /\ config = "never" => \A c \in Clients : ~clients[c].cluster_connection
    /\ config = "always"
         => /\ \A c \in Created : clients[c].cluster_connection
            /\ \A i \in 1..Len(queued) : queued[i].pool = queued[i].client
            /\ OnLists(shared) = {}

\* C14 witness: in mode always two clients are connected, and a request of
\* each of them has been routed.
C14_AlwaysTwoClientsRouted ==
    /\ config = "always"
    /\ Cardinality(Created) = 2
    /\ {queued[i].client : i \in 1..Len(queued)} = Created

\* The positions of '{' in the key, and of '}' after the first '{'.
Opens(key) == {i \in 1..Len(key) : key[i] = 123}

FirstOpen(key) == CHOOSE i \in Opens(key) : \A j \in Opens(key) : i <= j

Closes(key) == {i \in (FirstOpen(key) + 1)..Len(key) : key[i] = 125}

FirstClose(key) == CHOOSE i \in Closes(key) : \A j \in Closes(key) : i <= j

\* The key has a non-empty tag: the bytes strictly between its first '{' and
\* the first '}' after it.
HasTag(key) ==
    /\ Opens(key) # {}
    /\ Closes(key) # {}
    /\ FirstClose(key) > FirstOpen(key) + 1

TagOf(key) == SubSeq(key, FirstOpen(key) + 1, FirstClose(key) - 1)

\* C15: the slot of a key is the hash of its tag when it has a non-empty
\* one, else of the whole key, reduced to 14 bits: it lies in 0..16383, and
\* with any hash in place of crc16 a key that has a non-empty tag gets the
\* slot of the bare tag.
C15_SlotOfTag ==
    call.fn = "clusterKeyHashSlot"
      => /\ call.res["crc16"] \in 0..16383
         /\ call.res["crc16"] =
               crc16(IF HasTag(call.arg) THEN TagOf(call.arg) ELSE call.arg)
                   % 16384
         /\ HasTag(call.arg)
              => \A h \in Hashes :
                     call.res[h] = clusterKeyHashSlotWith(h, TagOf(call.arg))

\* C15 witness: a key with bytes before and after its braces, whose slot is
\* not the one the whole key hashes to.
C15_TagInsideKey ==
    /\ call.fn = "clusterKeyHashSlot"
    /\ HasTag(call.arg)
    /\ FirstOpen(call.arg) > 1
    /\ call.res["crc16"] # crc16(call.arg) % 16384
    /\ call.res["len"] = Len(TagOf(call.arg))

\* C16: every slot a node claims in the table, through a range N-M or as a
\* single slot, is looked up to exactly that node, although only the end
\* points of a range are keys of the map.
C16_ClaimedSlotFindsItsNode ==
    call.fn = "searchNodeBySlot"
      => \A d \in DefsOf(call.arg) :
             \A s \in Claimed(call.arg[d[1]].slots[d[2]]) \cap Probes :
                 call.res[s] = SharedNode(call.arg[d[1]].name)

\* C16 witness: a table in which node B claims a range that crosses a byte
\* boundary of the key and node A a single slot below it and one above it;
\* a slot inside the range, not an end point, was looked up to B.
C16_InsideRange ==
    /\ call.fn = "searchNodeBySlot"
    /\ call.arg[1].slots = << <<0>>, <<16383>> >>
    /\ call.arg[2].slots = << <<255, 5460>> >>
    /\ call.res[257] = SharedNode("B")

\* C17: a request with a key whose slot no node serves is not routed (it is
\* answered 'Failed to get node for query'): no request that was appended to
\* a requests_to_send list has such a key.
C17_UnservedKeyNotRouted ==
    \A i \in 1..Len(queued) :
        \A k \in KeyPositions(reqs[queued[i].req]) :
            getNodeByKey(SharedSlotsMap, ArgBytes(reqs[queued[i].req], k),
                         UNDEFINED_SLOT).node # NilNode

\* The well-formed commands the clients send.
KnownCommands == {GetB, GetF, GetC, Ping, KeysX, MGetBAC, MGetBC}

StartsWith(b, cmd) == Len(cmd) <= Len(b) /\ SubSeq(b, 1, Len(cmd)) = cmd

\* The commands b is the concatenation of; an empty command stands for
\* bytes that are none of the commands.
RECURSIVE SplitCommands(_)
SplitCommands(b) ==
    IF b = <<>> THEN <<>>
    ELSE IF \E cmd \in KnownCommands : StartsWith(b, cmd)
    THEN With(CHOOSE cmd \in KnownCommands : StartsWith(b, cmd),
              LAMBDA cmd : <<cmd>> \o SplitCommands(Tail0(b, Len(cmd) + 1)))
    ELSE << <<>> >>

\* Client c reads, in this step, a chunk of whole well-formed commands into
\* a new request, and the handler returns.
ReadsCommands(c) ==
    /\ <<"cr", c>> \in fired
    /\ clients[c].rd /\ clients[c].sock /\ ~clients[c].freed
    /\ clients[c].current_request = 0
    /\ input[c] # <<>>
    /\ input'[c] = Tail(input[c])
    /\ Head(input[c]).k = "data"
    /\ \A k \in DOMAIN SplitCommands(Head(input[c]).b) :
           SplitCommands(Head(input[c]).b)[k] # <<>>
    /\ halted' = ""

\* The requests nreq+1 .. nreq+K made by the step hold the K commands, one
\* each, and are linked in that order (a request the step has also freed is
\* unlinked from its neighbours).
OneRequestPerCommand(c, cmds) ==
    /\ nreq' = nreq + Len(cmds)
    /\ \A k \in 1..Len(cmds) :
          /\ reqs'[nreq + k].client = c
          /\ reqs'[nreq + k].buffer = cmds[k]
          /\ reqs'[nreq + k].num_commands = 1
          /\ (k > 1 /\ ~reqs'[nreq + k].freed /\ ~reqs'[nreq + k - 1].freed)
               => /\ reqs'[nreq + k].prev_request = nreq + k - 1
                  /\ reqs'[nreq + k - 1].next_request = nreq + k
          /\ k = 1 => reqs'[nreq + k].prev_request = 0
          /\ k = Len(cmds) => reqs'[nreq + k].next_request = 0

\* C18: a read that brings K concatenated well-formed multi-bulk commands
\* yields exactly K request objects, linked prev/next in the order of the
\* commands, each holding exactly one command, with num_commands = 1.
C18_PipelineSplit ==
    [][\A c \in Clients :
          ReadsCommands(c)
            => OneRequestPerCommand(c, SplitCommands(Head(input[c]).b))]_vars

\* C18 witness: five requests made from one read of five commands, linked
\* in order.
C18_FiveLinked ==
    \E r \in ReqIds :
        /\ r + 4 <= nreq
        /\ \A k \in 0..4 : /\ reqs[r + k].buffer = GetB
                           /\ reqs[r + k].num_commands = 1
                           /\ ~reqs[r + k].freed
        /\ \A k \in 1..4 : /\ reqs[r + k].prev_request = r + k - 1
                           /\ reqs[r + k - 1].next_request = r + k

\* The requests of client c that were not freed.
Outstanding(c) == {r \in 1..nreq : reqs[r].client = c /\ ~reqs[r].freed}

\* C19: a client whose socket the proxy has closed, after a fatal error on
\* it, is torn down: it is not on the worker's list of clients and none of
\* its requests is left.
C19_ClosedClientTornDown ==
    \A c \in Clients \ toaccept :
        ~clients[c].sock
          => /\ c \notin SeqToSet(thread_clients)
             /\ Outstanding(c) = {}

\* The lists of the private pools and of the clients 1..n, one after the
\* other (a client that was freed has no lists).
RECURSIVE ClientLists(_)
ClientLists(n) ==
    IF n = 0 THEN <<>>
    ELSE ClientLists(n - 1)
           \o (IF clients[n].freed THEN <<>>
               ELSE priv[n].requests_to_send \o priv[n].requests_pending
                      \o clients[n].requests_to_process)

\* How many times request r is on the lists of the pools and of the clients.
Occurrences(r) ==
    SeqCount(shared.requests_to_send \o shared.requests_pending
               \o ClientLists(NumClients), r)

\* The requests that were made and not freed.
Live == {r \in 1..nreq : ~reqs[r].freed}

\* C20: between two handlers no live request is on two lists (or on the
\* lists of two pools) at once, and none is twice on one list.
C20_NeverOnTwoLists == \A r \in Live : Occurrences(r) <= 1

\* C21: a request with owned_by_client set is only on the lists of its
\* client's private pool, and a request on the lists of a private pool has
\* owned_by_client set, whenever it was created.
C21_OwnedIffPrivate ==
    /\ \A r \in OnLists(shared) : ~reqs[r].freed => ~reqs[r].owned_by_client
    /\ \A c \in Clients :
          clients[c].cluster_connection /\ ~clients[c].freed
            => \A r \in OnLists(priv[c]) :
                   ~reqs[r].freed
                     => reqs[r].owned_by_client /\ reqs[r].client = c

\* C22: every token of a reply frame in a client's output buffer is of a
\* frame the node sent in answer to a request of that client.
C22_RepliesOfOwnRequests ==
    \A c \in Clients :
        \A k \in 1..Len(hist[c]) :
            hist[c][k].part > 0 => reqs[hist[c][k].req].client = c

\* The descriptor request r was written to: the context of its node.
FdOf(r) == IF reqs[r].node = NilNode THEN 0 ELSE context[reqs[r].node]

\* The requests that are before r on a requests_pending list and were
\* written to the descriptor of r.
OlderPending(list, r) ==
    {list[i] : i \in {k \in 1..Len(list) :
                        /\ list[k] # r
                        /\ FdOf(list[k]) = FdOf(r)
                        /\ \E j \in (k + 1)..Len(list) : list[j] = r}}

OlderOnItsPool(r) ==
    OlderPending(shared.requests_pending, r)
      \cup UNION {OlderPending(priv[c].requests_pending, r) :
                    c \in {d \in Clients : clients[d].cluster_connection
                                              /\ ~clients[d].freed}}

\* C24: the request that takes a complete reply read from a descriptor is
\* the oldest request on its pool's requests_pending that was written to that
\* descriptor (as long as no handler has read freed memory).
C24_ReplyGoesToOldestPending ==
    [][(lastcopy' # lastcopy /\ ~tainted')
          => OlderOnItsPool(lastcopy'.req) = {}]_vars

\* Request r is on the requests_pending list of a pool: it was written whole
\* to its node.
OnPending(r) ==
    \/ r \in SeqToSet(shared.requests_pending)
    \/ \E c \in Clients :
          /\ clients[c].cluster_connection /\ ~clients[c].freed
          /\ r \in SeqToSet(priv[c].requests_pending)

\* C23: with nodes that answer and clients that stay connected, a request
\* that was written whole to its node (it is on requests_pending) is
\* eventually freed with its reply in its client's output buffer.
C23_WrittenEventuallyAnswered ==
    \A r \in 1..MaxReq :
        (r <= nreq /\ ~reqs[r].freed /\ OnPending(r))
          ~> (reqs[r].freed /\ Answers(reqs[r].client, r) # {})

\* The writes that wrote the last byte of request r: after such a write
\* the request is appended to requests_pending.
CompletedAt(r) ==
    {k \in 1..Len(wlog) :
        wlog[k].req = r /\ wlog[k].to = Len(reqs[r].buffer)}

\* Both requests were written whole, r2 before r1.
PendingFirst(r2, r1) ==
    /\ CompletedAt(r1) # {}
    /\ \E k \in CompletedAt(r2) : \A m \in CompletedAt(r1) : k < m

\* C25: of two requests of a client that were appended to the
\* requests_to_send of one pool (for the same slot, so for the same
\* descriptor), the one appended later does not enter requests_pending
\* before the other (as long as no handler has read freed memory).
C25_PendingInToSendOrder ==
    tainted \/
    \A i, j \in 1..Len(queued) :
        (SameClientAndPool(i, j) /\ queued[i].slot = queued[j].slot)
            => ~PendingFirst(queued[j].req, queued[i].req)

\* The places in queued at which routing appended request r to a
\* requests_to_send list.
Enqueued(r) == {i \in 1..Len(queued) : queued[i].req = r}

\* C26: routing appends a request to a requests_to_send list at most once,
\* and a request is written whole to its node at most once, also when it is
\* the tail of a pipelined read and is completed by a later read.
C26_RoutedOnce ==
    \A r \in 1..nreq :
        /\ Cardinality(Enqueued(r)) <= 1
        /\ replays[r] = 0 => Cardinality(CompletedAt(r)) <= 1

\* C27: on one back-end descriptor no byte of a request is written while
\* another request, of any client, is partly written there, and a request
\* that has its write handler set is the request registered with the event
\* of its descriptor (as long as no handler has read freed memory).
C27_NoInterleavedRequests ==
    tainted \/
    /\ \A i, j \in 1..Len(wlog) : OpenAt(i, j) => wlog[i].req = wlog[j].req
    /\ \A r \in Live :
          reqs[r].has_write_handler
            => /\ FdOf(r) # 0
               /\ events[FdOf(r)].wr
               /\ events[FdOf(r)].data = r

\* The pools on whose lists request r is: 0 for the shared pool, c for the
\* private pool of client c.
PoolsOf(r) ==
    (IF r \in OnLists(shared) THEN {0} ELSE {})
      \cup {c \in Clients : /\ clients[c].cluster_connection
                            /\ ~clients[c].freed
                            /\ r \in OnLists(priv[c])}

\* C28: two live requests of a pipelined chain, linked by next_request, are
\* never on the lists of two different pools.
C28_ChainOnOnePool ==
    \A r \in Live :
        (reqs[r].next_request # 0 /\ ~reqs[reqs[r].next_request].freed)
          => Cardinality(PoolsOf(r) \cup PoolsOf(reqs[r].next_request)) <= 1

\* The state as the handlers see it, between two events.
Now == State(NodeRoom({}), ClientRoom({}))

\* The loop of beforeThreadSleep that demotes every client of the worker.
Demoted(s) == DisableAll(s, s.thread_clients)

\* The lists of the pools, the requests and the clients are the same in a
\* and b.
SamePools(a, b) ==
    /\ a.shared = b.shared
    /\ a.priv = b.priv
    /\ a.reqs = b.reqs
    /\ a.clients = b.clients
    /\ a.context = b.context
    /\ a.thread_clients = b.thread_clients

\* C29: demotion is idempotent.  From any state, demoting a client twice
\* in a row leaves the lists of the pools, the requests (node,
\* owned_by_client) and the private pools as demoting it once, and so does
\* running the loop over all the clients of the worker twice.
C29_DemotionIdempotent ==
    /\ SamePools(Demoted(Demoted(Now)), Demoted(Now))
    /\ \A c \in SeqToSet(thread_clients) :
          ~clients[c].freed
            => SamePools(
                 disableMultiplexingForClient(
                     disableMultiplexingForClient(Now, c), c),
                 disableMultiplexingForClient(Now, c))

\* C29 witness: a state in which demoting moves a request of a client to
\* its private pool and leaves another request of that client, one that is
\* being written or read, on the shared pool.
C29_DemotionMovesAndSkips ==
    \E c \in SeqToSet(thread_clients) :
        /\ ~clients[c].freed
        /\ \E r \in OnLists(shared) :
              /\ reqs[r].client = c
              /\ r \in OnLists(Demoted(Now).priv[c])
        /\ \E r \in OnLists(Demoted(Now).shared) : reqs[r].client = c

\* Request r has its read handler, or the descriptor of its node is held
\* by a file event of a request of another client (isClusterFileEventBusy);
\* rq, ev and ctx are the requests, the events and the contexts.
ReadableOrBusy(rq, ev, ctx, r) ==
    \/ rq[r].has_read_handler
    \/ /\ rq[r].node # NilNode
       /\ ctx[rq[r].node] # 0
       /\ ev[ctx[rq[r].node]].rd \/ ev[ctx[rq[r].node]].wr
       /\ ev[ctx[rq[r].node]].data # 0
       /\ rq[ev[ctx[rq[r].node]].data].client # rq[r].client

C31_ParserRestartable ==
    (call.fn = "parseRequest" /\ call.arg[2] > 0)
      => /\ ~call.res.first.hang /\ ~call.res.second.hang
         /\ call.res.first.status = PARSE_STATUS_INCOMPLETE
         /\ call.res.second = call.res.whole
         /\ call.res.whole.status = PARSE_STATUS_OK

\* C32: parseRequest returns on every buffer, with ok, incomplete or error.
C32_ParserReturns ==
    call.fn = "parseRequest"
      => /\ ~call.res.whole.hang
         /\ call.res.whole.status \in {PARSE_STATUS_OK, PARSE_STATUS_INCOMPLETE,
                                       PARSE_STATUS_ERROR}

Outstanding1(r) ==
    /\ r \in Live /\ FdOf(r) # 0
    /\ (reqs[r].written > 0 \/ OnPending(r))

\* C34: a pipelined request whose previous request has another slot is not
\* written to a descriptor while the previous request is outstanding on that
\* descriptor: the two are never outstanding on one descriptor together.
C34_OtherSlotWaitsForPeer ==
    \A r \in Live :
        (/\ reqs[r].prev_request # 0
         /\ reqs[reqs[r].prev_request].slot # reqs[r].slot
         /\ Outstanding1(reqs[r].prev_request)
         /\ FdOf(reqs[r].prev_request) = FdOf(r))
          => ~Outstanding1(r)

\* C35: no readable or writable event of a node's descriptor is registered
\* for a request that was freed.
C35_NoEventOfFreedRequest ==
    \A fd \in Fds :
        (events[fd].rd \/ events[fd].wr)
          => (events[fd].data \in 1..nreq => ~reqs[events[fd].data].freed)

\* C36: a command is accepted with the private slot map of a client exactly
\* when it is accepted with the shared one, with the same error and slot
\* when it is not, and the private node is the clone of the shared node.
C36_PrivateRoutesAsShared ==
    call.fn = "getRequestNode"
      => /\ call.res.private.err = call.res.shared.err
         /\ call.res.private.slot = call.res.shared.slot
         /\ (call.res.private.node = NilNode)
               <=> (call.res.shared.node = NilNode)
         /\ call.res.private.node # NilNode
               => call.res.private.node.name = call.res.shared.node.name

\* C37: a linked client has its readable event registered; the end of the
\* flush of its output buffer takes the writable event only.
C37_LinkedClientReadable ==
    \A c \in Clients :
        (~clients[c].freed /\ clients[c].status = CLIENT_STATUS_LINKED)
          => clients[c].rd

C39_SharedPoolOfWorkerOnly == Threads.pool \subseteq {"worker"}

\* C40: while a thread is inside the close, open and store section of the
\* connect of a node, no other thread is inside it for the same node, on the
\* connect of the first send and on the reconnect after a read error.
C40_ConnectsSerialized ==
    \A n \in NodeNames : \A w1, w2 \in Workers :
        Connecting(w1, n) /\ Connecting(w2, n) => w1 = w2

====
